---- MODULE Spec2Model ----
(***************************************************************************)
(* Audio upload deduplication: exact-duplicate rejection on a content      *)
(* digest (processUpload), asynchronous fingerprint analysis (process,     *)
(* findSimilar) and the in-memory SSE subscriber registry (notifyWarning). *)
(*                                                                         *)
(* Every `await` of the JavaScript source is an interleaving point: the    *)
(* statements between two awaits form one atomic action.  Consecutive      *)
(* awaits that only touch data private to the call (its own temp object,   *)
(* its own local file, immutable columns of its own row) are merged into   *)
(* one action.                                                             *)
(***************************************************************************)
EXTENDS Bags, FiniteSets, Integers, Sequences, TLC

\* ---------------------------------------------------------------- bounds
MaxUploads == 2        \* POST /upload requests over the whole run
MaxInFlight == 2       \* POST /upload requests being served together
NumContents == 3       \* distinct byte sequences that can be submitted
MaxRedeliveries == 1   \* deliveries of a job beyond its first one (at-least-once)
NumWorkers == 2        \* analysis runs that can be in flight together
MaxConns == 1          \* SSE connections over the whole run
MaxFaults == 1         \* failures of the collaborators (blob store, queue, fpcalc)
NumArtifacts == 3      \* artifacts already admitted when SpecAnalysis starts
MaxListeners == 3      \* SSE connections over the whole run of SpecHub
MaxFpLen == 3          \* characters of a fingerprint compared on its own
MaxProbes == 2         \* (maxBits, distance) pairs classified in one run

Calls == 1..MaxUploads
Contents == 1..NumContents
Workers == 1..NumWorkers
Conns == 1..MaxConns

\* ------------------------------------------------------ program constants
SIMILARITY_THRESHOLD == 70
attempts == 1                    \* new Queue(name, {connection}), add(name, data): no
                                 \* attempts option, a job is tried once
Infinity == 1000000
NULL == -1                       \* SQL NULL of a numeric column / absent number
NULLSTR == <<-1>>                \* SQL NULL of a text column holding a fingerprint

allowed ==
  {"audio/mpeg", "audio/wav", "audio/ogg", "audio/m4a", "audio/aac", "audio/flac",
   "audio/x-wav", "audio/x-ogg", "audio/x-m4a", "audio/x-aac", "audio/x-flac",
   "audio/x-mpeg"}

\* Mutant: every type is taken as supported.
isSupportedAudio_Any(mimeType) == mimeType \in allowed \cup {"video/mp4"}

isSupportedAudio(mimeType) == mimeType \in allowed

\* The (originalname, mimetype) pairs request u can carry: every request has
\* its own file name, and either an audio type or a type that is not allowed.
Metas(u) ==
  {[name |-> <<"track", u>>,
    mime |-> IF u % 2 = 1 THEN "audio/mpeg" ELSE "audio/x-flac"],
   [name |-> <<"clip", u>>, mime |-> "video/mp4"]}

\* ------------------------------------------------------------ pure helpers
Max(a, b) == IF a >= b THEN a ELSE b
Min(a, b) == IF a <= b THEN a ELSE b
Abs(a) == IF a >= 0 THEN a ELSE 0 - a

\* SHA-256 over the bytes, hex encoded.  The digest is taken to be collision
\* free on the contents of the model.
computeFileHash(content) == <<"sha256", content>>

\* file.size as multer reports it: the byte count of the content.
FileSize(content) == 1000 * content

\* `${crypto.randomUUID()}_${originalFilename}`: the UUID of call u is u.
TempFileName(u, originalFilename) == <<u, originalFilename>>

\* `${contentHash}_${originalFilename}`
PermanentFileName(contentHash, originalFilename) == <<contentHash, originalFilename>>

\* What fpcalc prints for the bytes of `content` (the extractor is a
\* deterministic function of the bytes): a base64 string given as the
\* sequence of its 6-bit character values; and the DURATION line, absent for
\* content 1.  Contents 1 and 2 differ in 6 bits of 24 (75.00%), contents 2
\* and 3 in 2 bits (91.67%), contents 1 and 3 in 8 bits (66.67%).
FpString(content) ==
  [i \in 1..4 |-> IF i < content THEN (IF i % 2 = 1 THEN 63 ELSE 3) ELSE 0]
FpDuration(content) == IF content = 1 THEN NULL ELSE 100 + content

\* Buffer.from(s, 'base64'): 4 characters give 3 bytes, a tail of 3 gives 2,
\* a tail of 2 gives 1, a tail of 1 gives none.
RECURSIVE Base64Decode(_)
Base64Decode(s) ==
  IF Len(s) < 2 THEN <<>>
  ELSE LET b1 == s[1] * 4 + (s[2] \div 16) IN
       IF Len(s) = 2 THEN <<b1>>
       ELSE LET b2 == (s[2] % 16) * 16 + (s[3] \div 4) IN
            IF Len(s) = 3 THEN <<b1, b2>>
            ELSE LET b3 == (s[3] % 4) * 64 + s[4] IN
                 <<b1, b2, b3>> \o Base64Decode(SubSeq(s, 5, Len(s)))

\* bin1[i] ^ bin2[i] followed by the while (xor) loop that counts its 1 bits.
RECURSIVE XorPopcount(_, _)
XorPopcount(x, y) ==
  IF x = 0 /\ y = 0 THEN 0
  ELSE (IF (x % 2) # (y % 2) THEN 1 ELSE 0) + XorPopcount(x \div 2, y \div 2)

RECURSIVE XorBits(_, _, _)
XorBits(bin1, bin2, i) ==
  IF i > Min(Len(bin1), Len(bin2)) THEN 0
  ELSE XorPopcount(bin1[i], bin2[i]) + XorBits(bin1, bin2, i + 1)

\* Mutant: the distance starts at 0, without the term for the length
\* difference.
hammingDistance_NoLengthTerm(a, b) ==
  LET fp1 == IF a = NULLSTR THEN <<>> ELSE a
      fp2 == IF b = NULLSTR THEN <<>> ELSE b
  IN IF fp1 = <<>> \/ fp2 = <<>> THEN Infinity
     ELSE XorBits(Base64Decode(fp1), Base64Decode(fp2), 1)

hammingDistance(a, b) ==
  LET fp1 == IF a = NULLSTR THEN <<>> ELSE a
      fp2 == IF b = NULLSTR THEN <<>> ELSE b
  IN IF fp1 = <<>> \/ fp2 = <<>> THEN Infinity
     ELSE LET bin1 == Base64Decode(fp1)
              bin2 == Base64Decode(fp2)
          IN Abs(Len(bin1) - Len(bin2)) * 8 + XorBits(bin1, bin2, 1)

\* Mutant: Math.min in the place of Math.max.
maxBitsOf_Min(fingerprint, perceptual_hash) == Min(Len(fingerprint), Len(perceptual_hash)) * 6

\* Mutant: maxBits from the length of the subject's fingerprint alone.
maxBitsOf_SubjectOnly(fingerprint, perceptual_hash) == Len(fingerprint) * 6

\* Math.max(fingerprint.length, row.perceptual_hash.length) * 6
maxBitsOf(fingerprint, perceptual_hash) == Max(Len(fingerprint), Len(perceptual_hash)) * 6

\* ((maxBits - distance) / maxBits) * 100 as the fraction <<numerator,
\* denominator>>.  The source computes it in doubles; with the integers that
\* occur here the comparison below gives the result of the exact one.
similarityFraction(maxBits, distance) == <<(maxBits - distance) * 100, maxBits>>

\* Mutant: similarityPercent > SIMILARITY_THRESHOLD.
MeetsThreshold_Strict(maxBits, distance) ==
  /\ maxBits > 0
  /\ similarityFraction(maxBits, distance)[1]
       > SIMILARITY_THRESHOLD * similarityFraction(maxBits, distance)[2]

\* Mutant: the threshold is taken 10 points lower.
MeetsThreshold_Loose(maxBits, distance) ==
  /\ maxBits > 0
  /\ similarityFraction(maxBits, distance)[1]
       >= (SIMILARITY_THRESHOLD - 10) * similarityFraction(maxBits, distance)[2]

\* similarityPercent >= SIMILARITY_THRESHOLD.  With maxBits = 0 the distance
\* is Infinity and the quotient is -Infinity.
MeetsThreshold(maxBits, distance) ==
  /\ maxBits > 0
  /\ similarityFraction(maxBits, distance)[1]
       >= SIMILARITY_THRESHOLD * similarityFraction(maxBits, distance)[2]

\* The test of the loop body of findSimilar for one row.
IsMatch(fingerprint, perceptual_hash) ==
  LET distance == hammingDistance(fingerprint, perceptual_hash)
      maxBits == maxBitsOf(fingerprint, perceptual_hash)
  IN distance # Infinity /\ MeetsThreshold(maxBits, distance)

\* similarityPercent.toFixed(2), in hundredths of a percent.
SimilarityFixed(fingerprint, perceptual_hash) ==
  LET distance == hammingDistance(fingerprint, perceptual_hash)
      maxBits == maxBitsOf(fingerprint, perceptual_hash)
  IN ((maxBits - distance) * 20000 + maxBits) \div (2 * maxBits)


\* ------------------------------------------------------------------ state
VARIABLES
  calls,                \* POST /upload requests: position and locals of each
  audio_files,          \* table audio_files, row i has id i
  upload_attempts,      \* table upload_attempts, a bag of rows
  similarity_warnings,  \* table similarity_warnings, a set of rows
  temp_uploads,         \* bucket temp-uploads: objects [key, bytes]
  audio_bucket,         \* bucket audio-files: objects [key, bytes]
  uploads_dir,          \* backend/uploads: the calls whose multer file exists
  queue,                \* fingerprintQueue: the jobs added, in order
  workers,              \* runs of the worker callback: position and locals
  warningSubscribers,   \* Map audioId -> list of connections
  conns,                \* SSE connections: state and what was written to them
  lastScan,             \* history: per job, what its latest findSimilar read and returned
  faults,               \* failures of the collaborators so far
  probe                 \* a comparison of two fingerprints on its own: arguments, results

vars ==
  <<calls, audio_files, upload_attempts, similarity_warnings, temp_uploads,
    audio_bucket, uploads_dir, queue, workers, warningSubscribers, conns, lastScan, faults,
    probe>>

ledgerVars == <<audio_files, upload_attempts, similarity_warnings>>
blobVars == <<temp_uploads, audio_bucket, uploads_dir>>
hubVars == <<warningSubscribers, conns>>
envVars == <<lastScan, faults>>

IdleCall ==
  [pc |-> "idle", content |-> 0, name |-> <<>>, mime |-> "", contentHash |-> <<>>,
   rowCount |-> NULL, audioId |-> 0, status |-> 0]

IdleWorker ==
  [pc |-> "idle", job |-> 0, audioId |-> 0, filename |-> <<>>, fingerprint |-> NULLSTR,
   duration |-> NULL, rows |-> <<>>, match |-> 0, rowCount |-> NULL]

NoScan == [scans |-> 0, seen |-> {}, found |-> 0]

\* A connection: "none" before the request, "open" while the transport is up,
\* "broken" once the transport is down and its events are still to be
\* dispatched, "errored" after the error handler ran, "closed" after the close
\* handler ran.  writes counts the res.write calls of notifyWarning on the
\* handle, thrown those of them that threw.
NoProbe == [kind |-> "none"]

NoConn == [state |-> "none", audioId |-> 0, received |-> <<>>, writes |-> 0, thrown |-> 0]

Init ==
  /\ calls = [u \in Calls |-> IdleCall]
  /\ audio_files = <<>>
  /\ upload_attempts = EmptyBag
  /\ similarity_warnings = {}
  /\ temp_uploads = {}
  /\ audio_bucket = {}
  /\ uploads_dir = {}
  /\ queue = <<>>
  /\ workers = [w \in Workers |-> IdleWorker]
  /\ warningSubscribers = <<>>
  /\ conns = [c \in Conns |-> NoConn]
  /\ lastScan = <<>>
  /\ faults = 0
  /\ probe = NoProbe

\* ------------------------------------------------------- table primitives
\* The rows of audio_files that conflict with a new row on UNIQUE(content_hash).
ConflictingFiles(table, contentHash) ==
  {i \in DOMAIN table : table[i].content_hash = contentHash}

NewAudioFile(table, contentHash, storagePath, originalFilename, fileSize, mimeType) ==
  [id |-> Len(table) + 1,
   content_hash |-> contentHash,
   perceptual_hash |-> NULLSTR,
   storage_path |-> storagePath,
   original_filename |-> originalFilename,
   file_size |-> fileSize,
   mime_type |-> mimeType,
   duration_seconds |-> NULL,
   similarity_status |-> "pending",
   created_at |-> Len(table)]

\* Mutant: a plain INSERT on a table without the UNIQUE constraint.
InsertAudioFile_NoUnique(table, contentHash, storagePath, originalFilename, fileSize, mimeType) ==
  Append(table, NewAudioFile(table, contentHash, storagePath, originalFilename,
                             fileSize, mimeType))

\* Mutant: the conflict target is storage_path instead of content_hash.
InsertAudioFile_OnPath(table, contentHash, storagePath, originalFilename, fileSize, mimeType) ==
  IF \E i \in DOMAIN table : table[i].storage_path = storagePath THEN table
  ELSE Append(table, NewAudioFile(table, contentHash, storagePath, originalFilename,
                                  fileSize, mimeType))

\* Mutant: ON CONFLICT (content_hash) DO UPDATE SET the submitted metadata.
InsertAudioFile_Upsert(table, contentHash, storagePath, originalFilename, fileSize, mimeType) ==
  IF ConflictingFiles(table, contentHash) # {}
  THEN [i \in DOMAIN table |->
          IF table[i].content_hash = contentHash
          THEN [table[i] EXCEPT !.storage_path = storagePath,
                                !.original_filename = originalFilename,
                                !.file_size = fileSize, !.mime_type = mimeType]
          ELSE table[i]]
  ELSE Append(table, NewAudioFile(table, contentHash, storagePath, originalFilename,
                                  fileSize, mimeType))

\* INSERT INTO audio_files (...) VALUES (...) ON CONFLICT (content_hash) DO
\* NOTHING: the table after the statement.  id is a fresh value, the columns
\* not listed take their defaults.
InsertAudioFile(table, contentHash, storagePath, originalFilename, fileSize, mimeType) ==
  IF ConflictingFiles(table, contentHash) # {} THEN table
  ELSE Append(table, NewAudioFile(table, contentHash, storagePath, originalFilename,
                                  fileSize, mimeType))

\* INSERT INTO upload_attempts (content_hash, was_duplicate) VALUES ($1, $2)
InsertUploadAttempt(table, contentHash, wasDuplicate) ==
  table (+) SetToBag({[content_hash |-> contentHash, was_duplicate |-> wasDuplicate]})

\* A collaborator fails: the number of failures in one run is bounded.
Fault == faults < MaxFaults /\ faults' = faults + 1
NoFault == UNCHANGED faults

\* storage.from(bucket).remove([key])
RemoveObject(bucket, key) == {o \in bucket : o.key # key}

\* The finally block of processUpload: the multer file is unlinked.
UnlinkLocal(dir, u) == dir \ {u}

\* ------------------------------------------------------ POST /upload path
\* uploadAudio up to the call of processUpload: multer has stored the file,
\* an unsupported MIME type is answered 400.  Requests are numbered in the
\* order in which they arrive.
uploadAudio(u) ==
  /\ calls[u].pc = "idle"
  /\ \A v \in Calls : v < u => calls[v].pc # "idle"
  /\ Cardinality({v \in Calls : calls[v].pc \notin {"idle", "done"}}) < MaxInFlight
  /\ \E content \in Contents, meta \in Metas(u) :
       /\ uploads_dir' = uploads_dir \cup {u}
       /\ calls' = [calls EXCEPT ![u] =
            IF isSupportedAudio(meta.mime)
            THEN [@ EXCEPT !.pc = "hash", !.content = content, !.name = meta.name,
                           !.mime = meta.mime]
            ELSE [@ EXCEPT !.pc = "done", !.name = meta.name, !.mime = meta.mime,
                           !.status = 400]]
  /\ UNCHANGED <<ledgerVars, temp_uploads, audio_bucket, queue, workers, hubVars, envVars>>
  /\ UNCHANGED probe

\* processUpload steps 1 and 2: the digest of the local file, then the upload
\* to temp-uploads under a fresh name.  Either can fail; the error is thrown.
stageUpload(u) ==
  /\ calls[u].pc = "hash"
  /\ \/ /\ calls' = [calls EXCEPT ![u].pc = "insert",
                                  ![u].contentHash = computeFileHash(calls[u].content)]
        /\ temp_uploads' = temp_uploads \cup
             {[key |-> TempFileName(u, calls[u].name), bytes |-> calls[u].content]}
        /\ UNCHANGED uploads_dir
        /\ NoFault
     \/ /\ Fault
        /\ \E hashed \in BOOLEAN :
             calls' = [calls EXCEPT ![u].pc = "done", ![u].status = 500,
                         ![u].contentHash =
                            IF hashed THEN computeFileHash(calls[u].content) ELSE <<>>]
        /\ uploads_dir' = UnlinkLocal(uploads_dir, u)
        /\ UNCHANGED temp_uploads
  /\ UNCHANGED <<ledgerVars, audio_bucket, queue, workers, hubVars, lastScan>>
  /\ UNCHANGED probe

\* Mutant: the job is added as soon as the row is inserted, before the move.
insertLedgerRow_EnqueueEarly(u) ==
  /\ calls[u].pc = "insert"
  /\ LET c == calls[u]
         after == InsertAudioFile(audio_files, c.contentHash,
                      PermanentFileName(c.contentHash, c.name), c.name,
                      FileSize(c.content), c.mime)
         rowCount == Len(after) - Len(audio_files)
     IN /\ audio_files' = after
        /\ calls' = [calls EXCEPT ![u] =
             IF rowCount = 0
             THEN [@ EXCEPT !.pc = "duplicate", !.rowCount = 0]
             ELSE [@ EXCEPT !.pc = "move", !.rowCount = rowCount,
                            !.audioId = after[Len(after)].id]]
        /\ queue' = IF rowCount = 0 THEN queue
                    ELSE Append(queue, [audioId |-> after[Len(after)].id,
                                        filename |-> c.name, deliveries |-> 0,
                                        failed |-> 0])
        /\ lastScan' = IF rowCount = 0 THEN lastScan ELSE Append(lastScan, NoScan)
  /\ UNCHANGED <<upload_attempts, similarity_warnings, blobVars, workers, hubVars,
                 faults, probe>>

\* Mutant: on a conflict the call takes over the id of the row that is there
\* and goes on as the call that inserted it.
insertLedgerRow_Readmit(u) ==
  /\ calls[u].pc = "insert"
  /\ LET c == calls[u]
         after == InsertAudioFile(audio_files, c.contentHash,
                      PermanentFileName(c.contentHash, c.name), c.name,
                      FileSize(c.content), c.mime)
         id == CHOOSE i \in DOMAIN after : after[i].content_hash = c.contentHash
     IN /\ audio_files' = after
        /\ calls' = [calls EXCEPT ![u] = [@ EXCEPT !.pc = "move", !.rowCount = 1,
                                                   !.audioId = id]]
  /\ UNCHANGED <<upload_attempts, similarity_warnings, blobVars, queue, workers, hubVars,
                 envVars, probe>>

\* processUpload step 3: the atomic insert, and the test of result.rowCount.
insertLedgerRow(u) ==
  /\ calls[u].pc = "insert"
  /\ LET c == calls[u]
         after == InsertAudioFile(audio_files, c.contentHash,
                      PermanentFileName(c.contentHash, c.name), c.name,
                      FileSize(c.content), c.mime)
         rowCount == Len(after) - Len(audio_files)
     IN /\ audio_files' = after
        /\ calls' = [calls EXCEPT ![u] =
             IF rowCount = 0
             THEN [@ EXCEPT !.pc = "duplicate", !.rowCount = 0]
             ELSE [@ EXCEPT !.pc = "move", !.rowCount = rowCount,
                            !.audioId = after[Len(after)].id]]
  /\ UNCHANGED <<upload_attempts, similarity_warnings, blobVars, queue, workers, hubVars,
                 envVars>>
  /\ UNCHANGED probe

\* Mutant: the duplicate branch adds a fingerprint job as well.
rejectDuplicate_Enqueue(u) ==
  /\ calls[u].pc = "duplicate"
  /\ \/ /\ temp_uploads' = RemoveObject(temp_uploads, TempFileName(u, calls[u].name))
        /\ NoFault
     \/ UNCHANGED temp_uploads /\ Fault
  /\ upload_attempts' = InsertUploadAttempt(upload_attempts, calls[u].contentHash, TRUE)
  /\ queue' = Append(queue, [audioId |-> calls[u].audioId, filename |-> calls[u].name,
                             deliveries |-> 0, failed |-> 0])
  /\ lastScan' = Append(lastScan, NoScan)
  /\ calls' = [calls EXCEPT ![u].pc = "done", ![u].status = 409]
  /\ uploads_dir' = UnlinkLocal(uploads_dir, u)
  /\ UNCHANGED <<audio_files, similarity_warnings, audio_bucket, workers, hubVars, probe>>

\* The duplicate branch: the temp object is removed (a failure is only
\* logged), the attempt is recorded, {duplicate: true} is returned (409).
rejectDuplicate(u) ==
  /\ calls[u].pc = "duplicate"
  /\ \/ /\ temp_uploads' = RemoveObject(temp_uploads, TempFileName(u, calls[u].name))
        /\ NoFault
     \/ UNCHANGED temp_uploads /\ Fault
  /\ upload_attempts' = InsertUploadAttempt(upload_attempts, calls[u].contentHash, TRUE)
  /\ calls' = [calls EXCEPT ![u].pc = "done", ![u].status = 409]
  /\ uploads_dir' = UnlinkLocal(uploads_dir, u)
  /\ UNCHANGED <<audio_files, similarity_warnings, audio_bucket, queue, workers, hubVars,
                 lastScan>>
  /\ UNCHANGED probe

\* Mutant: the error of the move is logged and the call goes on.
moveToPermanent_Swallow(u) ==
  /\ calls[u].pc = "move"
  /\ \/ /\ temp_uploads' = RemoveObject(temp_uploads, TempFileName(u, calls[u].name))
        /\ audio_bucket' = audio_bucket \cup
             {[key |-> PermanentFileName(calls[u].contentHash, calls[u].name),
               bytes |-> o.bytes] :
                o \in {t \in temp_uploads : t.key = TempFileName(u, calls[u].name)}}
        /\ NoFault
     \/ /\ Fault
        /\ UNCHANGED <<temp_uploads, audio_bucket>>
  /\ calls' = [calls EXCEPT ![u].pc = "record"]
  /\ UNCHANGED <<ledgerVars, uploads_dir, queue, workers, hubVars, lastScan, probe>>

\* Step 4: the move from temp-uploads to audio-files; a failure is thrown.
moveToPermanent(u) ==
  /\ calls[u].pc = "move"
  /\ \/ /\ temp_uploads' = RemoveObject(temp_uploads, TempFileName(u, calls[u].name))
        /\ audio_bucket' = audio_bucket \cup
             {[key |-> PermanentFileName(calls[u].contentHash, calls[u].name),
               bytes |-> o.bytes] :
                o \in {t \in temp_uploads : t.key = TempFileName(u, calls[u].name)}}
        /\ calls' = [calls EXCEPT ![u].pc = "record"]
        /\ UNCHANGED uploads_dir
        /\ NoFault
     \/ /\ Fault
        /\ calls' = [calls EXCEPT ![u].pc = "done", ![u].status = 500]
        /\ uploads_dir' = UnlinkLocal(uploads_dir, u)
        /\ UNCHANGED <<temp_uploads, audio_bucket>>
  /\ UNCHANGED <<ledgerVars, queue, workers, hubVars, lastScan>>
  /\ UNCHANGED probe

\* Steps 5 and 6: the attempt is recorded, the fingerprint job is added to
\* the queue and {duplicate: false, audioId} is returned (201); a failure of
\* the queue is thrown.
recordAndEnqueue(u) ==
  /\ calls[u].pc = "record"
  /\ upload_attempts' = InsertUploadAttempt(upload_attempts, calls[u].contentHash, FALSE)
  /\ \/ /\ queue' = Append(queue, [audioId |-> calls[u].audioId,
                                   filename |-> calls[u].name, deliveries |-> 0, failed |-> 0])
        /\ lastScan' = Append(lastScan, NoScan)
        /\ calls' = [calls EXCEPT ![u].pc = "done", ![u].status = 201]
        /\ NoFault
     \/ /\ Fault
        /\ calls' = [calls EXCEPT ![u].pc = "done", ![u].status = 500]
        /\ UNCHANGED <<queue, lastScan>>
  /\ uploads_dir' = UnlinkLocal(uploads_dir, u)
  /\ UNCHANGED <<audio_files, similarity_warnings, temp_uploads, audio_bucket,
                 workers, hubVars>>
  /\ UNCHANGED probe

\* --------------------------------------------------- SSE subscriber registry
\* The handles of the registry under key audioId, <<>> when there is no key.
Subscribers(reg, audioId) == IF audioId \in DOMAIN reg THEN reg[audioId] ELSE <<>>

\* warningSubscribers.has/set/get(audioId).push(res)
RegistryPush(reg, audioId, c) ==
  [k \in DOMAIN reg \cup {audioId} |-> IF k = audioId THEN Append(Subscribers(reg, k), c)
                                                         ELSE reg[k]]

\* Mutant: splice(index, 1) without the test of index: an index of -1 removes
\* the last element of the list.
SpliceOut_NoIndexCheck(list, c) ==
  IF \E i \in DOMAIN list : list[i] = c
  THEN LET index == CHOOSE i \in DOMAIN list :
                      list[i] = c /\ \A j \in DOMAIN list : list[j] = c => i <= j
       IN SubSeq(list, 1, index - 1) \o SubSeq(list, index + 1, Len(list))
  ELSE SubSeq(list, 1, Len(list) - 1)

\* subscribers.indexOf(res), and splice(index, 1) when index > -1
RECURSIVE SpliceOut(_, _)
SpliceOut(list, c) ==
  IF list = <<>> THEN <<>>
  ELSE IF Head(list) = c THEN Tail(list)
  ELSE <<Head(list)>> \o SpliceOut(Tail(list), c)

\* Mutant: the handler drops the whole list of its key.
RegistryRemove_DropKey(reg, audioId, c) ==
  IF audioId \in DOMAIN reg THEN [reg EXCEPT ![audioId] = <<>>] ELSE reg

\* The close and error handlers: the handle is spliced out of the list of its
\* key, when the key exists.
RegistryRemove(reg, audioId, c) ==
  IF audioId \in DOMAIN reg THEN [reg EXCEPT ![audioId] = SpliceOut(@, c)] ELSE reg

\* try { res.write(...) } catch (err) { logger.error(...) }: on an open
\* connection the message reaches the client; on a connection whose transport
\* is down nothing is delivered, and the call throws when the handle is in
\* `throwing`.
Write(cs, c, message, throwing) ==
  [cs EXCEPT ![c] =
     IF cs[c].state = "open"
     THEN [@ EXCEPT !.received = Append(@, message), !.writes = @ + 1]
     ELSE [@ EXCEPT !.writes = @ + 1,
                    !.thrown = IF c \in throwing THEN @ + 1 ELSE @]]

\* Mutant: res.write outside a try block: the exception leaves forEach at
\* the handle whose write throws.
RECURSIVE WriteAll_NoCatch(_, _, _, _)
WriteAll_NoCatch(cs, list, message, throwing) ==
  IF list = <<>> THEN cs
  ELSE IF cs[Head(list)].state # "open" /\ Head(list) \in throwing
       THEN Write(cs, Head(list), message, throwing)
       ELSE WriteAll_NoCatch(Write(cs, Head(list), message, throwing), Tail(list),
                             message, throwing)

\* subscribers.forEach(res => ...): each handle of the list, in order.
RECURSIVE WriteAll(_, _, _, _)
WriteAll(cs, list, message, throwing) ==
  IF list = <<>> THEN cs
  ELSE WriteAll(Write(cs, Head(list), message, throwing), Tail(list), message, throwing)

\* getWarnings: SELECT ... FROM similarity_warnings WHERE audio_id_a = $1 OR
\* audio_id_b = $1 ORDER BY created_at DESC, as the list of the response.
getWarnings(table, audioId) ==
  LET rows == {r \in table : r.audio_id_a = audioId \/ r.audio_id_b = audioId}
      n == Cardinality(rows)
      sorted == CHOOSE o \in [1..n -> rows] :
                  /\ \A i, j \in 1..n : i # j => o[i] # o[j]
                  /\ \A i, j \in 1..n : i < j => o[i].created_at >= o[j].created_at
  IN [i \in 1..n |->
        [file1 |-> [id |-> sorted[i].audio_id_a, filename |-> sorted[i].filename_a],
         file2 |-> [id |-> sorted[i].audio_id_b, filename |-> sorted[i].filename_b],
         similarityPercent |-> sorted[i].similarity_percent,
         detectedAt |-> sorted[i].created_at]]

\* notifyWarning: the connections after the broadcast to the subscribers of
\* audioIdA, then to those of audioIdB.
Warning(audioIdA, audioIdB, filenameA, filenameB, similarityPercent) ==
  [type |-> "similarity_detected",
   file1 |-> [id |-> audioIdA, filename |-> filenameA],
   file2 |-> [id |-> audioIdB, filename |-> filenameB],
   similarityPercent |-> similarityPercent]

\* Mutant: only the subscribers of the analysed artifact are notified.
notifyWarning_SubjectOnly(reg, cs, audioIdA, audioIdB, filenameA, filenameB, similarityPercent, throwing) ==
  WriteAll(cs, Subscribers(reg, audioIdA),
           Warning(audioIdA, audioIdB, filenameA, filenameB, similarityPercent), throwing)

notifyWarning(reg, cs, audioIdA, audioIdB, filenameA, filenameB, similarityPercent, throwing) ==
  LET warning == Warning(audioIdA, audioIdB, filenameA, filenameB, similarityPercent)
  IN WriteAll(WriteAll(cs, Subscribers(reg, audioIdA), warning, throwing),
              Subscribers(reg, audioIdB), warning, throwing)

\* The handles of the registry whose transport is down: a write to one of
\* them can throw.
DeadHandles(reg, cs) ==
  {c \in DOMAIN cs : cs[c].state # "open" /\ \E k \in DOMAIN reg : \E i \in DOMAIN reg[k] : reg[k][i] = c}

\* Mutant: the handle is registered without the connected message.
subscribeToWarnings_NoGreeting(c) ==
  /\ conns[c].state = "none"
  /\ \A d \in DOMAIN conns : d < c => conns[d].state # "none"
  /\ \E audioId \in DOMAIN audio_files :
       /\ conns' = [conns EXCEPT ![c] =
            [NoConn EXCEPT !.state = "open", !.audioId = audioId]]
       /\ warningSubscribers' = RegistryPush(warningSubscribers, audioId, c)
  /\ UNCHANGED <<calls, ledgerVars, blobVars, queue, workers, envVars, probe>>

\* GET /upload/:audioId/subscribe: the connected message is written, then the
\* handle is pushed on the list of audioId.  Connections are numbered in the
\* order in which they arrive; the ids asked for are those of the ledger.
subscribeToWarnings(c) ==
  /\ conns[c].state = "none"
  /\ \A d \in DOMAIN conns : d < c => conns[d].state # "none"
  /\ \E audioId \in DOMAIN audio_files :
       /\ conns' = [conns EXCEPT ![c] =
            [NoConn EXCEPT !.state = "open", !.audioId = audioId,
                           !.received = <<[type |-> "connected"]>>]]
       /\ warningSubscribers' = RegistryPush(warningSubscribers, audioId, c)
  /\ UNCHANGED <<calls, ledgerVars, blobVars, queue, workers, envVars>>
  /\ UNCHANGED probe

\* The transport of an open connection goes down (the client leaves, the
\* socket is reset).  The handlers of the request run later, from the event
\* loop: nothing of the program runs here.
disconnect(c) ==
  /\ conns[c].state = "open"
  /\ conns' = [conns EXCEPT ![c].state = "broken"]
  /\ UNCHANGED <<calls, ledgerVars, blobVars, queue, workers, warningSubscribers, envVars>>
  /\ UNCHANGED probe

\* req.on('error'): the handle is removed; the response is not ended.
onError(c) ==
  /\ conns[c].state = "broken"
  /\ warningSubscribers' = RegistryRemove(warningSubscribers, conns[c].audioId, c)
  /\ conns' = [conns EXCEPT ![c].state = "errored"]
  /\ UNCHANGED <<calls, ledgerVars, blobVars, queue, workers, envVars>>
  /\ UNCHANGED probe

\* req.on('close'): the handle is removed and the response ended.  'close'
\* comes alone (at once when the client leaves, or later), or after 'error'.
onClose(c) ==
  /\ conns[c].state \in {"open", "broken", "errored"}
  /\ warningSubscribers' = RegistryRemove(warningSubscribers, conns[c].audioId, c)
  /\ conns' = [conns EXCEPT ![c].state = "closed"]
  /\ UNCHANGED <<calls, ledgerVars, blobVars, queue, workers, envVars>>
  /\ UNCHANGED probe

\* ------------------------------------------------------- analysis (worker)
\* Mutant: the UPDATE without its WHERE clause.
UpdateFingerprint_NoWhere(table, fingerprint, duration, audioId) ==
  [i \in DOMAIN table |->
     [table[i] EXCEPT !.perceptual_hash = fingerprint,
                      !.duration_seconds = duration,
                      !.similarity_status = "processed"]]

\* Mutant: the UPDATE leaves similarity_status as it is.
UpdateFingerprint_KeepStatus(table, fingerprint, duration, audioId) ==
  [i \in DOMAIN table |->
     IF table[i].id = audioId
     THEN [table[i] EXCEPT !.perceptual_hash = fingerprint,
                           !.duration_seconds = duration]
     ELSE table[i]]

\* Mutant: the UPDATE sets the status and leaves perceptual_hash as it is.
UpdateFingerprint_StatusOnly(table, fingerprint, duration, audioId) ==
  [i \in DOMAIN table |->
     IF table[i].id = audioId
     THEN [table[i] EXCEPT !.duration_seconds = duration,
                           !.similarity_status = "processed"]
     ELSE table[i]]

\* UPDATE audio_files SET perceptual_hash=$1, duration_seconds=$2,
\* similarity_status='processed' WHERE id=$3
UpdateFingerprint(table, fingerprint, duration, audioId) ==
  [i \in DOMAIN table |->
     IF table[i].id = audioId
     THEN [table[i] EXCEPT !.perceptual_hash = fingerprint,
                           !.duration_seconds = duration,
                           !.similarity_status = "processed"]
     ELSE table[i]]

\* Mutant: the UPDATE without its WHERE clause.
UpdateSimilarFound_NoWhere(table, audioId) ==
  [i \in DOMAIN table |-> [table[i] EXCEPT !.similarity_status = "similar_found"]]

\* UPDATE audio_files SET similarity_status='similar_found' WHERE id=$1
UpdateSimilarFound(table, audioId) ==
  [i \in DOMAIN table |->
     IF table[i].id = audioId
     THEN [table[i] EXCEPT !.similarity_status = "similar_found"]
     ELSE table[i]]

\* Mutant: the query without id != $1.
CandidateIds_IncludeSelf(table, audioId) ==
  {table[i].id : i \in {k \in DOMAIN table : table[k].perceptual_hash # NULLSTR}}

\* SELECT id, perceptual_hash, original_filename FROM audio_files
\* WHERE id != $1 AND perceptual_hash IS NOT NULL: the ids of the result.
CandidateIds(table, audioId) ==
  {table[i].id : i \in {k \in DOMAIN table :
                          table[k].id # audioId /\ table[k].perceptual_hash # NULLSTR}}

\* The query has no ORDER BY: its rows come in any order.
Orders(S) ==
  {o \in [1..Cardinality(S) -> S] : \A i, j \in 1..Cardinality(S) : i # j => o[i] # o[j]}

ResultRow(table, id) ==
  [id |-> id, perceptual_hash |-> table[id].perceptual_hash,
   original_filename |-> table[id].original_filename]

\* Mutant: the loop keeps the best row above the threshold instead of
\* returning at the first one.
RECURSIVE BestFrom(_, _, _, _)
BestFrom(fingerprint, rows, i, best) ==
  IF i > Len(rows) THEN best
  ELSE IF /\ IsMatch(fingerprint, rows[i].perceptual_hash)
          /\ \/ best = 0
             \/ SimilarityFixed(fingerprint, rows[i].perceptual_hash)
                  > SimilarityFixed(fingerprint, rows[best].perceptual_hash)
       THEN BestFrom(fingerprint, rows, i + 1, i)
       ELSE BestFrom(fingerprint, rows, i + 1, best)

FirstMatch_Best(fingerprint, rows, i) == BestFrom(fingerprint, rows, i, 0)

\* for (const row of result.rows) { ... if (similarityPercent >= THRESHOLD)
\* ... return }: the index of the row at which the loop returns, 0 when it
\* runs to the end, starting at row i.
RECURSIVE FirstMatch(_, _, _)
FirstMatch(fingerprint, rows, i) ==
  IF i > Len(rows) THEN 0
  ELSE IF IsMatch(fingerprint, rows[i].perceptual_hash) THEN i
  ELSE FirstMatch(fingerprint, rows, i + 1)

\* UNIQUE(audio_id_a, audio_id_b)
ConflictingWarnings(table, a, b) ==
  {r \in table : r.audio_id_a = a /\ r.audio_id_b = b}

NewWarning(table, a, b, filenameA, filenameB, similarityPercent) ==
  [audio_id_a |-> a, audio_id_b |-> b,
   filename_a |-> filenameA, filename_b |-> filenameB,
   similarity_percent |-> similarityPercent,
   created_at |-> Cardinality(table)]

\* Mutant: ON CONFLICT (audio_id_a, audio_id_b) DO UPDATE, the row is rewritten.
InsertWarning_Upsert(table, a, b, filenameA, filenameB, similarityPercent) ==
  (table \ ConflictingWarnings(table, a, b))
    \cup {NewWarning(table, a, b, filenameA, filenameB, similarityPercent)}

\* INSERT INTO similarity_warnings (...) VALUES (...)
\* ON CONFLICT (audio_id_a, audio_id_b) DO NOTHING
InsertWarning(table, a, b, filenameA, filenameB, similarityPercent) ==
  IF ConflictingWarnings(table, a, b) # {} THEN table
  ELSE table \cup {NewWarning(table, a, b, filenameA, filenameB, similarityPercent)}

\* Deliveries of jobs beyond the first delivery of each.
RECURSIVE Redeliveries(_)
Redeliveries(q) ==
  IF q = <<>> THEN 0
  ELSE (IF Head(q).deliveries > 1 THEN Head(q).deliveries - 1 ELSE 0)
       + Redeliveries(Tail(q))

\* A job whose runs have thrown is tried again by the queue while it has
\* attempts left.
RetryDue(job) == job.failed >= 1 /\ job.failed < attempts

\* worker.on('failed'): the throw of process() fails the job.
JobFailed(q, j) == [q EXCEPT ![j].failed = @ + 1]

\* The queue hands job j to the worker callback.  A job is delivered at
\* least once; a delivery beyond the first can come while an earlier one is
\* still running (a stalled job) or after it has ended.
deliver(w) ==
  /\ workers[w].pc = "idle"
  /\ \A v \in Workers : v < w => workers[v].pc # "idle"
  /\ \E j \in DOMAIN queue :
       /\ \/ queue[j].deliveries = 0
          \/ Redeliveries(queue) < MaxRedeliveries
          \/ RetryDue(queue[j])
       /\ queue' = [queue EXCEPT ![j].deliveries = @ + 1]
       /\ workers' = [workers EXCEPT ![w] =
            [IdleWorker EXCEPT !.pc = "fetch", !.job = j,
                               !.audioId = queue[j].audioId]]
  /\ UNCHANGED <<calls, ledgerVars, blobVars, hubVars, envVars>>
  /\ UNCHANGED probe

\* Mutant: a failure of the run is reported on the request that admitted the
\* artifact.
fetchAndFingerprint_Surface(w) ==
  /\ workers[w].pc = "fetch"
  /\ LET id == workers[w].audioId
         found == id \in DOMAIN audio_files
         objects == IF found
                    THEN {o \in audio_bucket : o.key = audio_files[id].storage_path}
                    ELSE {}
     IN \/ /\ objects # {}
           /\ \E o \in objects :
                workers' = [workers EXCEPT ![w].pc = "store",
                              ![w].filename = audio_files[id].original_filename,
                              ![w].fingerprint = FpString(o.bytes),
                              ![w].duration = FpDuration(o.bytes)]
           /\ NoFault
           /\ UNCHANGED <<calls, queue>>
        \/ /\ Fault
           /\ workers' = [workers EXCEPT ![w] = IdleWorker]
           /\ queue' = JobFailed(queue, workers[w].job)
           /\ calls' = [u \in DOMAIN calls |->
                          IF calls[u].audioId = id THEN [calls[u] EXCEPT !.status = 500]
                          ELSE calls[u]]
  /\ UNCHANGED <<ledgerVars, blobVars, hubVars, lastScan, probe>>

\* Mutant: the worker callback calls process() again when it throws.
fetchAndFingerprint_Retry(w) ==
  /\ workers[w].pc = "fetch"
  /\ LET id == workers[w].audioId
         objects == {o \in audio_bucket : o.key = audio_files[id].storage_path}
     IN \/ /\ objects # {}
           /\ \E o \in objects :
                workers' = [workers EXCEPT ![w].pc = "store",
                              ![w].filename = audio_files[id].original_filename,
                              ![w].fingerprint = FpString(o.bytes),
                              ![w].duration = FpDuration(o.bytes)]
           /\ NoFault
           /\ UNCHANGED queue
        \/ /\ Fault
           /\ workers' = [workers EXCEPT ![w].filename = audio_files[id].original_filename]
           /\ queue' = JobFailed(queue, workers[w].job)
  /\ UNCHANGED <<calls, ledgerVars, blobVars, hubVars, lastScan, probe>>

\* process() up to the fingerprint: the row is read (its absence throws), the
\* object is downloaded to a temp file (an error throws) and fpcalc is run
\* (an error, or output without a FINGERPRINT line, throws).  A throw ends
\* the run; the finally block removes the temp file.
fetchAndFingerprint(w) ==
  /\ workers[w].pc = "fetch"
  /\ LET id == workers[w].audioId
         found == id \in DOMAIN audio_files
         objects == IF found
                    THEN {o \in audio_bucket : o.key = audio_files[id].storage_path}
                    ELSE {}
     IN \/ /\ objects # {}
           /\ \E o \in objects :
                workers' = [workers EXCEPT ![w].pc = "store",
                              ![w].filename = audio_files[id].original_filename,
                              ![w].fingerprint = FpString(o.bytes),
                              ![w].duration = FpDuration(o.bytes)]
           /\ NoFault
           /\ UNCHANGED queue
        \/ /\ objects = {}
           /\ workers' = [workers EXCEPT ![w] = IdleWorker]
           /\ queue' = JobFailed(queue, workers[w].job)
           /\ NoFault
        \/ /\ objects # {}
           /\ Fault
           /\ workers' = [workers EXCEPT ![w] = IdleWorker]
           /\ queue' = JobFailed(queue, workers[w].job)
  /\ UNCHANGED <<calls, ledgerVars, blobVars, hubVars, lastScan>>
  /\ UNCHANGED probe

\* Mutant: the UPDATE is not awaited and the scan runs before it lands.
storeFingerprint_NotAwaited(w) ==
  /\ workers[w].pc = "store"
  /\ workers' = [workers EXCEPT ![w].pc = "scan"]
  /\ UNCHANGED <<calls, ledgerVars, blobVars, queue, hubVars, envVars, probe>>

\* Step 4 of process(): the fingerprint is stored.
storeFingerprint(w) ==
  /\ workers[w].pc = "store"
  /\ audio_files' = UpdateFingerprint(audio_files, workers[w].fingerprint,
                                      workers[w].duration, workers[w].audioId)
  /\ workers' = [workers EXCEPT ![w].pc = "scan"]
  /\ UNCHANGED <<calls, upload_attempts, similarity_warnings, blobVars, queue, hubVars,
                 envVars>>
  /\ UNCHANGED probe

\* Mutant: process() marks the artifact whatever findSimilar returned.
scanCandidates_MarkAlways(w) ==
  /\ workers[w].pc = "scan"
  /\ \E order \in Orders(CandidateIds(audio_files, workers[w].audioId)) :
       LET rows == [i \in DOMAIN order |-> ResultRow(audio_files, order[i])]
           match == FirstMatch(workers[w].fingerprint, rows, 1)
       IN /\ workers' = [workers EXCEPT ![w] =
               IF match = 0 THEN [@ EXCEPT !.pc = "mark"]
               ELSE [@ EXCEPT !.pc = "warn", !.rows = rows, !.match = match]]
          /\ lastScan' = [lastScan EXCEPT ![workers[w].job] =
               [scans |-> Min(@.scans + 1, 2),
                seen |-> CandidateIds(audio_files, workers[w].audioId),
                found |-> IF match = 0 THEN 0 ELSE rows[match].id]]
  /\ UNCHANGED <<calls, ledgerVars, blobVars, queue, hubVars, faults, probe>>

\* findSimilar: the candidates are read and the loop runs up to its return.
\* Without a match findSimilar returns null and process() is complete.
scanCandidates(w) ==
  /\ workers[w].pc = "scan"
  /\ \E order \in Orders(CandidateIds(audio_files, workers[w].audioId)) :
       LET rows == [i \in DOMAIN order |-> ResultRow(audio_files, order[i])]
           match == FirstMatch(workers[w].fingerprint, rows, 1)
       IN /\ workers' = [workers EXCEPT ![w] =
               IF match = 0 THEN IdleWorker
               ELSE [@ EXCEPT !.pc = "warn", !.rows = rows, !.match = match]]
          /\ lastScan' = [lastScan EXCEPT ![workers[w].job] =
               [scans |-> Min(@.scans + 1, 2),
                seen |-> CandidateIds(audio_files, workers[w].audioId),
                found |-> IF match = 0 THEN 0 ELSE rows[match].id]]
  /\ UNCHANGED <<calls, ledgerVars, blobVars, queue, hubVars, faults>>
  /\ UNCHANGED probe

\* Mutant: the INSERT is not awaited; the notification goes out before the
\* row is there.
insertWarning_NotAwaited(w) ==
  /\ workers[w].pc = "warn"
  /\ workers' = [workers EXCEPT ![w].pc = "notify", ![w].rowCount = 0]
  /\ UNCHANGED <<calls, ledgerVars, blobVars, queue, hubVars, envVars, probe>>

\* findSimilar: the warning for the matching row is inserted.
insertWarning(w) ==
  /\ workers[w].pc = "warn"
  /\ LET row == workers[w].rows[workers[w].match]
         after == InsertWarning(similarity_warnings, workers[w].audioId, row.id,
                    workers[w].filename, row.original_filename,
                    SimilarityFixed(workers[w].fingerprint, row.perceptual_hash))
     IN /\ similarity_warnings' = after
        /\ workers' = [workers EXCEPT ![w].pc = "notify",
             ![w].rowCount = Cardinality(after) - Cardinality(similarity_warnings)]
  /\ UNCHANGED <<calls, audio_files, upload_attempts, blobVars, queue, hubVars, envVars>>
  /\ UNCHANGED probe

\* findSimilar: the subscribers are notified and the match is returned.
notifySubscribers(w) ==
  /\ workers[w].pc = "notify"
  /\ \E throwing \in SUBSET DeadHandles(warningSubscribers, conns) :
       LET row == workers[w].rows[workers[w].match]
       IN conns' = notifyWarning(warningSubscribers, conns, workers[w].audioId, row.id,
                     workers[w].filename, row.original_filename,
                     SimilarityFixed(workers[w].fingerprint, row.perceptual_hash),
                     throwing)
  /\ workers' = [workers EXCEPT ![w].pc = "mark"]
  /\ UNCHANGED <<calls, ledgerVars, blobVars, queue, warningSubscribers, envVars>>
  /\ UNCHANGED probe

\* process(): findSimilar returned a match, the status becomes similar_found.
markSimilarFound(w) ==
  /\ workers[w].pc = "mark"
  /\ audio_files' = UpdateSimilarFound(audio_files, workers[w].audioId)
  /\ workers' = [workers EXCEPT ![w] = IdleWorker]
  /\ UNCHANGED <<calls, upload_attempts, similarity_warnings, blobVars, queue, hubVars,
                 envVars>>
  /\ UNCHANGED probe

\* ---------------------------------------------------------- specification
Next ==
  \/ \E u \in Calls : uploadAudio(u)
  \/ \E u \in Calls : stageUpload(u)
  \/ \E u \in Calls : insertLedgerRow(u)
  \/ \E u \in Calls : rejectDuplicate(u)
  \/ \E u \in Calls : moveToPermanent(u)
  \/ \E u \in Calls : recordAndEnqueue(u)
  \/ \E c \in DOMAIN conns : subscribeToWarnings(c)
  \/ \E c \in DOMAIN conns : onClose(c)
  \/ \E w \in Workers : deliver(w)
  \/ \E w \in Workers : fetchAndFingerprint(w)
  \/ \E w \in Workers : storeFingerprint(w)
  \/ \E w \in Workers : scanCandidates(w)
  \/ \E w \in Workers : insertWarning(w)
  \/ \E w \in Workers : notifySubscribers(w)
  \/ \E w \in Workers : markSimilarFound(w)

Spec == Init /\ [][Next]_vars

\* The analysis on its own: the state after NumArtifacts requests with
\* different contents were served one after the other and answered 201
\* (every row pending, every object in audio-files, every job waiting),
\* one listener subscribed under artifact 2, and from there the worker.
\* Jobs are delivered in any order, so the order of the contents among the
\* requests is fixed.
Admitted(table, u, content) ==
  InsertAudioFile(table, computeFileHash(content),
    PermanentFileName(computeFileHash(content), <<"track", u>>), <<"track", u>>,
    FileSize(content), IF u % 2 = 1 THEN "audio/mpeg" ELSE "audio/x-flac")

RECURSIVE AdmittedAll(_, _)
AdmittedAll(contentOf, n) ==
  IF n = 0 THEN <<>> ELSE Admitted(AdmittedAll(contentOf, n - 1), n, contentOf[n])

InitAnalysis ==
  \E contentOf \in [1..NumArtifacts -> Contents] :
    /\ \A i \in 1..NumArtifacts : contentOf[i] = 1 + ((i - 1) % NumContents)
    /\ calls = [u \in 1..NumArtifacts |->
                  [IdleCall EXCEPT !.pc = "done", !.content = contentOf[u],
                     !.name = <<"track", u>>,
                     !.mime = IF u % 2 = 1 THEN "audio/mpeg" ELSE "audio/x-flac",
                     !.contentHash = computeFileHash(contentOf[u]),
                     !.rowCount = 1, !.audioId = u, !.status = 201]]
    /\ audio_files = AdmittedAll(contentOf, NumArtifacts)
    /\ upload_attempts = SetToBag({[content_hash |-> computeFileHash(contentOf[u]),
                                     was_duplicate |-> FALSE] : u \in 1..NumArtifacts})
    /\ similarity_warnings = {}
    /\ temp_uploads = {}
    /\ audio_bucket = {[key |-> PermanentFileName(computeFileHash(contentOf[u]),
                                                    <<"track", u>>),
                         bytes |-> contentOf[u]] : u \in 1..NumArtifacts}
    /\ uploads_dir = {}
    /\ queue = [u \in 1..NumArtifacts |->
                  [audioId |-> u, filename |-> <<"track", u>>, deliveries |-> 0, failed |-> 0]]
    /\ workers = [w \in Workers |-> IdleWorker]
    /\ warningSubscribers = RegistryPush(<<>>, 2, 1)
    /\ conns = [c \in Conns |->
                  IF c = 1 THEN [NoConn EXCEPT !.state = "open", !.audioId = 2,
                                               !.received = <<[type |-> "connected"]>>]
                  ELSE NoConn]
    /\ lastScan = [u \in 1..NumArtifacts |-> NoScan]
    /\ faults = 0
    /\ probe = NoProbe

NextAnalysis ==
  \/ \E w \in Workers : deliver(w)
  \/ \E w \in Workers : fetchAndFingerprint(w)
  \/ \E w \in Workers : storeFingerprint(w)
  \/ \E w \in Workers : scanCandidates(w)
  \/ \E w \in Workers : insertWarning(w)
  \/ \E w \in Workers : notifySubscribers(w)
  \/ \E w \in Workers : markSimilarFound(w)

SpecAnalysis == InitAnalysis /\ [][NextAnalysis]_vars

\* The subscriber registry under load: the state in which artifact 1 and
\* then artifact 3 were analysed (no candidate for 1, one candidate below the
\* threshold for 3), the job of artifact 2 is waiting, no listener has
\* connected yet; from there the listeners and the worker.
InitHub ==
  LET contentOf == [i \in 1..NumArtifacts |-> 1 + ((i - 1) % NumContents)]
      admitted == AdmittedAll(contentOf, NumArtifacts)
  IN
    /\ calls = [u \in 1..NumArtifacts |->
                  [IdleCall EXCEPT !.pc = "done", !.content = contentOf[u],
                     !.name = <<"track", u>>,
                     !.mime = IF u % 2 = 1 THEN "audio/mpeg" ELSE "audio/x-flac",
                     !.contentHash = computeFileHash(contentOf[u]),
                     !.rowCount = 1, !.audioId = u, !.status = 201]]
    /\ audio_files =
         UpdateFingerprint(
           UpdateFingerprint(admitted, FpString(contentOf[1]), FpDuration(contentOf[1]), 1),
           FpString(contentOf[3]), FpDuration(contentOf[3]), 3)
    /\ upload_attempts = SetToBag({[content_hash |-> computeFileHash(contentOf[u]),
                                     was_duplicate |-> FALSE] : u \in 1..NumArtifacts})
    /\ similarity_warnings = {}
    /\ temp_uploads = {}
    /\ audio_bucket = {[key |-> PermanentFileName(computeFileHash(contentOf[u]),
                                                    <<"track", u>>),
                         bytes |-> contentOf[u]] : u \in 1..NumArtifacts}
    /\ uploads_dir = {}
    /\ queue = [u \in 1..NumArtifacts |->
                  [audioId |-> u, filename |-> <<"track", u>>,
                   deliveries |-> IF u = 2 THEN 0 ELSE IF u = 1 THEN 2 ELSE 1,
                   failed |-> 0]]
    /\ workers = [w \in Workers |-> IdleWorker]
    /\ warningSubscribers = <<>>
    /\ conns = [c \in 1..MaxListeners |-> NoConn]
    /\ lastScan = [u \in 1..NumArtifacts |->
                     IF u = 2 THEN NoScan
                     ELSE [scans |-> IF u = 1 THEN 2 ELSE 1,
                           seen |-> IF u = 3 THEN {1} ELSE {}, found |-> 0]]
    /\ faults = 0
    /\ probe = NoProbe

NextHub ==
  \/ \E c \in DOMAIN conns : subscribeToWarnings(c)
  \/ \E c \in DOMAIN conns : disconnect(c)
  \/ \E c \in DOMAIN conns : onError(c)
  \/ \E c \in DOMAIN conns : onClose(c)
  \/ \E w \in Workers : deliver(w)
  \/ \E w \in Workers : fetchAndFingerprint(w)
  \/ \E w \in Workers : storeFingerprint(w)
  \/ \E w \in Workers : scanCandidates(w)
  \/ \E w \in Workers : insertWarning(w)
  \/ \E w \in Workers : notifySubscribers(w)
  \/ \E w \in Workers : markSimilarFound(w)

SpecHub == InitHub /\ [][NextHub]_vars

\* The comparison on its own.  Either two fingerprint strings are compared in
\* both directions, each as the loop body of findSimilar compares the
\* subject's fingerprint with a row; or pairs (maxBits, distance) are put to
\* the threshold test.  The strings are over three base64 characters ('A',
\* 'D' and '/'); the pairs are those of fingerprints of 5 and of 5000
\* characters, the latter around 70%.
FpChars == {0, 3, 63}
FpInputs == UNION {[1..n -> FpChars] : n \in 0..MaxFpLen}
BitInputs ==
  {<<30, d>> : d \in 0..30} \cup {<<30000, d>> : d \in 8998..9006}

\* One pass of the loop body: distance, maxBits, similarityPercent.toFixed(2)
\* and the outcome of the test.
Evaluation(fingerprint, perceptual_hash) ==
  LET distance == hammingDistance(fingerprint, perceptual_hash)
      maxBits == maxBitsOf(fingerprint, perceptual_hash)
  IN [distance |-> distance,
      maxBits |-> maxBits,
      percent |-> IF distance = Infinity THEN <<"-Infinity">>
                  ELSE <<SimilarityFixed(fingerprint, perceptual_hash)>>,
      match |-> IsMatch(fingerprint, perceptual_hash)]

NotEvaluated == [distance |-> NULL, maxBits |-> NULL, percent |-> <<>>, match |-> FALSE]

InitCompare ==
  /\ calls = [u \in Calls |-> IdleCall]
  /\ audio_files = <<>>
  /\ upload_attempts = EmptyBag
  /\ similarity_warnings = {}
  /\ temp_uploads = {}
  /\ audio_bucket = {}
  /\ uploads_dir = {}
  /\ queue = <<>>
  /\ workers = [w \in Workers |-> IdleWorker]
  /\ warningSubscribers = <<>>
  /\ conns = [c \in Conns |-> NoConn]
  /\ lastScan = <<>>
  /\ faults = 0
  /\ \/ \E a, b \in FpInputs :
          probe = [kind |-> "strings", a |-> a, b |-> b,
                   forward |-> NotEvaluated, backward |-> NotEvaluated]
     \/ probe = [kind |-> "bits", results |-> {}]

\* a is the subject's fingerprint, b the perceptual_hash of the row.
evaluateForward ==
  /\ probe.kind = "strings"
  /\ probe.forward = NotEvaluated
  /\ probe' = [probe EXCEPT !.forward = Evaluation(probe.a, probe.b)]
  /\ UNCHANGED <<calls, ledgerVars, blobVars, queue, workers, hubVars, envVars>>

\* b is the subject's fingerprint, a the perceptual_hash of the row.
evaluateBackward ==
  /\ probe.kind = "strings"
  /\ probe.backward = NotEvaluated
  /\ probe' = [probe EXCEPT !.backward = Evaluation(probe.b, probe.a)]
  /\ UNCHANGED <<calls, ledgerVars, blobVars, queue, workers, hubVars, envVars>>

\* if (similarityPercent >= SIMILARITY_THRESHOLD) for one pair.
classify ==
  /\ probe.kind = "bits"
  /\ Cardinality(probe.results) < MaxProbes
  /\ \E p \in BitInputs :
       probe' = [probe EXCEPT !.results = @ \cup
                   {[maxBits |-> p[1], distance |-> p[2],
                     match |-> MeetsThreshold(p[1], p[2])]}]
  /\ UNCHANGED <<calls, ledgerVars, blobVars, queue, workers, hubVars, envVars>>

NextCompare == evaluateForward \/ evaluateBackward \/ classify

SpecCompare == InitCompare /\ [][NextCompare]_vars


\* ------------------------------------------------------------ properties
\* The calls that have executed the INSERT with digest d.
Inserted(d) == {v \in DOMAIN calls : calls[v].contentHash = d /\ calls[v].rowCount # NULL}

\* C1: among the calls that have executed the INSERT for one digest, however
\* they interleave, exactly one got an id back and audio_files holds exactly
\* one row with that digest; a call that got no id answers {duplicate: true},
\* and without storage failures the one that got the id answers
\* {duplicate: false, audioId} with the id of that row.
C1_ExactlyOneAdmitted ==
  \A u \in DOMAIN calls :
    calls[u].rowCount # NULL =>
      LET d == calls[u].contentHash IN
      /\ Cardinality({v \in Inserted(d) : calls[v].rowCount = 1}) = 1
      /\ Cardinality(ConflictingFiles(audio_files, d)) = 1
      /\ calls[u].pc = "done" /\ calls[u].rowCount = 0 => calls[u].status = 409
      /\ calls[u].pc = "done" /\ calls[u].rowCount = 1 /\ faults = 0 =>
           /\ calls[u].status = 201
           /\ ConflictingFiles(audio_files, d) = {calls[u].audioId}
      /\ calls[u].status = 201 => calls[u].rowCount = 1
      /\ calls[u].status = 409 => calls[u].rowCount = 0

\* Two requests with the same bytes were in flight together: the one that
\* arrived second won the insert, the first was answered as a duplicate.
C1_Witness ==
  \E u, v \in DOMAIN calls :
    /\ v < u
    /\ calls[u].contentHash = calls[v].contentHash
    /\ calls[u].status = 201
    /\ calls[v].status = 409

\* C2: the insert of processUpload finds a conflict exactly when a row with
\* the digest of the submitted bytes exists, whatever name, type and size are
\* submitted; a call that found the conflict answers {duplicate: true}; and
\* after the insert the ledger has exactly one row for that digest.
C2_KeyedOnContent ==
  [][\A u \in DOMAIN calls :
       /\ (calls[u].pc = "insert" /\ calls'[u].pc # "insert") =>
            LET d == computeFileHash(calls[u].content) IN
            /\ (calls'[u].pc = "duplicate") <=> (ConflictingFiles(audio_files, d) # {})
            /\ Cardinality(ConflictingFiles(audio_files', d)) = 1
       /\ (calls[u].pc = "duplicate" /\ calls'[u].pc # "duplicate") =>
            calls'[u].status = 409
       /\ (calls[u].status # 409 /\ calls'[u].status = 409) =>
            ConflictingFiles(audio_files, computeFileHash(calls[u].content)) # {}
    ]_vars

\* The bytes of an accepted upload were submitted again under another name
\* and another type, and rejected.
C2_Witness ==
  \E u, v \in DOMAIN calls, i \in DOMAIN audio_files :
    /\ u < v
    /\ calls[u].status = 201
    /\ calls[u].audioId = i
    /\ calls[v].status = 409
    /\ audio_files[i].content_hash = calls[v].contentHash
    /\ audio_files[i].original_filename # calls[v].name
    /\ audio_files[i].mime_type # calls[v].mime

\* C3 (as claimed): similarity_warnings holds at most one row per unordered
\* pair of artifacts.
C3_OneWarningPerUnorderedPair ==
  \A r1, r2 \in similarity_warnings :
    {r1.audio_id_a, r1.audio_id_b} = {r2.audio_id_a, r2.audio_id_b} => r1 = r2

\* C4 (as claimed): once similarity_status is 'processed' or 'similar_found'
\* no step changes it.
C4_StatusNeverChangesAgain ==
  [][\A i \in DOMAIN audio_files :
       audio_files[i].similarity_status \in {"processed", "similar_found"} =>
         audio_files'[i].similarity_status = audio_files[i].similarity_status
    ]_vars

\* The similarity_detected events written to connection c for the pair {a, b}.
EventsFor(c, a, b) ==
  {k \in DOMAIN conns[c].received :
     /\ conns[c].received[k].type = "similarity_detected"
     /\ {conns[c].received[k].file1.id, conns[c].received[k].file2.id} = {a, b}}

\* The events written to connection c by analyses of artifact y that matched
\* artifact x.
ReportsOf(c, y, x) ==
  {k \in DOMAIN conns[c].received :
     /\ conns[c].received[k].type = "similarity_detected"
     /\ conns[c].received[k].file1.id = y
     /\ conns[c].received[k].file2.id = x}

\* C5 (as claimed, the half a finite run can refute): a listener that stays
\* connected under artifact x never receives more than one similarity_detected
\* event from the analysis of another artifact y matching x.
C5_AtMostOneEventPerPair ==
  \A c \in Conns, y \in DOMAIN audio_files :
    (conns[c].state = "open" /\ conns[c].audioId # y) =>
      Cardinality(ReportsOf(c, y, conns[c].audioId)) <= 1

\* C6 (as claimed): when findSimilar runs again for a job whose earlier run is
\* over, and it reads the same set of fingerprinted artifacts as the earlier
\* run read, it returns what the earlier run returned, so the warning rows
\* and the final status are those of the earlier run.
C6_RerunSameResult ==
  [][\A w \in Workers :
       (/\ workers[w].pc = "scan"
        /\ workers'[w].pc # "scan"
        /\ lastScan[workers[w].job].scans >= 1
        /\ \A v \in Workers \ {w} : workers[v].job # workers[w].job
        /\ lastScan[workers[w].job].seen = CandidateIds(audio_files, workers[w].audioId))
       => lastScan'[workers[w].job].found = lastScan[workers[w].job].found
    ]_vars

\* C7: a run of process() that ends at the extractor (or before it) leaves
\* audio_files, similarity_warnings and every connection as they were; and
\* the status, fingerprint and duration of an artifact are changed only by a
\* step of a run of process() for that same artifact, so no ingest, no
\* subscription and no analysis of another artifact changes them.
C7_FailedRunWritesNothing ==
  [][/\ \A w \in Workers :
          (workers[w].pc = "fetch" /\ workers'[w].pc = "idle") =>
            UNCHANGED <<audio_files, similarity_warnings, upload_attempts, conns>>
     /\ \A i \in DOMAIN audio_files :
          (\/ audio_files'[i].similarity_status # audio_files[i].similarity_status
           \/ audio_files'[i].perceptual_hash # audio_files[i].perceptual_hash
           \/ audio_files'[i].duration_seconds # audio_files[i].duration_seconds)
          => \E w \in Workers :
               /\ workers[w].audioId = audio_files[i].id
               /\ workers[w].pc \in {"store", "mark"}
               /\ workers'[w].pc # workers[w].pc
    ]_vars

\* The extractor failed for an admitted artifact, which is pending without a
\* fingerprint, while another artifact has since been analysed.
C7_Witness ==
  \E j \in DOMAIN queue, i \in DOMAIN audio_files :
    /\ queue[j].deliveries >= 1
    /\ faults >= 1
    /\ \A w \in Workers : workers[w].job # j
    /\ audio_files[queue[j].audioId].similarity_status = "pending"
    /\ audio_files[queue[j].audioId].perceptual_hash = NULLSTR
    /\ i # queue[j].audioId
    /\ audio_files[i].similarity_status # "pending"

\* C8: the step in which a call loses admission, and every later step of that
\* call, leaves audio_files as it was: no row added, no column changed.
C8_LoserLeavesLedger ==
  [][\A u \in DOMAIN calls :
       (\/ calls[u].pc = "insert" /\ calls'[u].pc = "duplicate"
        \/ calls[u].pc = "duplicate" /\ calls'[u].pc # "duplicate")
       => audio_files' = audio_files
    ]_vars

\* A call has just lost admission to a row that carries another name.
C8_Witness ==
  \E u \in DOMAIN calls, i \in DOMAIN audio_files :
    /\ calls[u].pc = "duplicate"
    /\ audio_files[i].content_hash = calls[u].contentHash
    /\ audio_files[i].original_filename # calls[u].name

\* C9: the warning insert of findSimilar, executed for a pair (subject,
\* candidate) that already has a row, changes nothing in similarity_warnings
\* and reports no row; after any execution there is exactly one row for the
\* ordered pair.
C9_WarningInsertIdempotent ==
  [][\A w \in Workers :
       (workers[w].pc = "warn" /\ workers'[w].pc = "notify") =>
         LET a == workers[w].audioId
             b == workers[w].rows[workers[w].match].id
         IN /\ ConflictingWarnings(similarity_warnings, a, b) # {} =>
                 /\ similarity_warnings' = similarity_warnings
                 /\ workers'[w].rowCount = 0
            /\ ConflictingWarnings(similarity_warnings, a, b) = {} =>
                 workers'[w].rowCount = 1
            /\ Cardinality(ConflictingWarnings(similarity_warnings', a, b)) = 1
    ]_vars

\* The insert was executed a second time for a pair and reported no row.
C9_Witness ==
  \E w \in Workers, r \in similarity_warnings :
    /\ workers[w].pc = "notify"
    /\ workers[w].rowCount = 0
    /\ r.audio_id_a = workers[w].audioId
    /\ r.audio_id_b = workers[w].rows[workers[w].match].id

\* The events written to connection c by a step.
NewEvents(c) ==
  {k \in DOMAIN conns'[c].received : k > Len(conns[c].received)}

\* C10: findSimilar returns at the first row, in the order of the query
\* result, whose similarity reaches the threshold: no earlier row reaches it,
\* the only row it inserts and the only events it sends are for that row, and
\* it returns null only when no row reaches the threshold.
C10_FirstMatchOnly ==
  [][\A w \in Workers :
       LET fp == workers[w].fingerprint
           a == workers[w].audioId
       IN
       /\ (workers[w].pc = "scan" /\ workers'[w].pc = "warn") =>
            LET rows == workers'[w].rows
                m == workers'[w].match
            IN /\ m \in DOMAIN rows
               /\ {rows[k].id : k \in DOMAIN rows} = CandidateIds(audio_files, a)
               /\ IsMatch(fp, rows[m].perceptual_hash)
               /\ \A k \in 1..(m - 1) : ~IsMatch(fp, rows[k].perceptual_hash)
       /\ (workers[w].pc = "scan" /\ workers'[w].pc = "idle") =>
            \A id \in CandidateIds(audio_files, a) :
              ~IsMatch(fp, audio_files[id].perceptual_hash)
       /\ (workers[w].pc = "warn" /\ workers'[w].pc = "notify") =>
            /\ Cardinality(similarity_warnings' \ similarity_warnings) <= 1
            /\ \A r \in similarity_warnings' \ similarity_warnings :
                 /\ r.audio_id_a = a
                 /\ r.audio_id_b = workers[w].rows[workers[w].match].id
       /\ (workers[w].pc = "notify" /\ workers'[w].pc = "mark") =>
            \A c \in Conns :
              /\ Cardinality(NewEvents(c)) <= 1
              /\ \A k \in NewEvents(c) :
                   /\ conns'[c].received[k].file1.id = a
                   /\ conns'[c].received[k].file2.id =
                        workers[w].rows[workers[w].match].id
       /\ workers[w].pc \in {"warn", "notify", "mark"} =>
            /\ workers'[w].pc # "scan"
            /\ workers'[w].pc # "idle" => /\ workers'[w].rows = workers[w].rows
                                          /\ workers'[w].match = workers[w].match
    ]_vars

\* findSimilar returned at the first row although a later row of the result
\* scores higher; its warning and its event are for the first row.
C10_Witness ==
  \E w \in Workers, c \in Conns :
    /\ workers[w].pc = "mark"
    /\ workers[w].match = 1
    /\ Len(workers[w].rows) >= 2
    /\ SimilarityFixed(workers[w].fingerprint, workers[w].rows[2].perceptual_hash)
         > SimilarityFixed(workers[w].fingerprint, workers[w].rows[1].perceptual_hash)
    /\ \E r \in similarity_warnings :
         r.audio_id_a = workers[w].audioId /\ r.audio_id_b = workers[w].rows[1].id
    /\ EventsFor(c, workers[w].audioId, workers[w].rows[1].id) # {}
    /\ EventsFor(c, workers[w].audioId, workers[w].rows[2].id) = {}

\* ------------------------------------------------- properties of the registry
\* The number of times handle c is on a list.
RECURSIVE Occurrences(_, _)
Occurrences(list, c) ==
  IF list = <<>> THEN 0
  ELSE (IF Head(list) = c THEN 1 ELSE 0) + Occurrences(Tail(list), c)

\* The handles on the lists of the registry.
Registered(reg) == UNION {{reg[k][i] : i \in DOMAIN reg[k]} : k \in DOMAIN reg}

\* The event the notifying run w broadcasts, and the two ids it notifies.
EventOf(w) ==
  LET row == workers[w].rows[workers[w].match]
  IN Warning(workers[w].audioId, row.id, workers[w].filename, row.original_filename,
             SimilarityFixed(workers[w].fingerprint, row.perceptual_hash))

\* The res.write calls notifyWarning(a, b, ...) makes on handle c.
WritesDue(reg, c, a, b) ==
  Occurrences(Subscribers(reg, a), c) + Occurrences(Subscribers(reg, b), c)

\* The step is the call of notifyWarning by run w.
NotifyStep(w) == workers[w].pc = "notify" /\ workers'[w].pc = "mark"

\* The step is the close or the error handler of connection c.
HandlerStep(c) ==
  /\ conns[c].state \in {"open", "broken", "errored"}
  /\ conns'[c].state \in {"errored", "closed"}
  /\ conns'[c].state # conns[c].state

\* The registry without handle c.
Without(reg, c) == [k \in DOMAIN reg |-> SelectSeq(reg[k], LAMBDA h : h # c)]

\* C11: a broadcast that finds a subscriber whose connection has gone down
\* (its close or error handler still to run) delivers the event to every
\* other subscriber registered under either id of the pair; and the handler,
\* when it runs, completes and takes exactly that handle out of the registry,
\* leaving every other subscriber registered.
C11_DisconnectDuringBroadcast ==
  /\ [][\A w \in Workers :
          (/\ NotifyStep(w)
           /\ \E d \in DeadHandles(warningSubscribers, conns) :
                WritesDue(warningSubscribers, d, EventOf(w).file1.id, EventOf(w).file2.id) > 0)
          => \A c \in DOMAIN conns :
               (/\ conns[c].state = "open"
                /\ WritesDue(warningSubscribers, c, EventOf(w).file1.id,
                             EventOf(w).file2.id) > 0)
               => /\ Len(conns'[c].received) > Len(conns[c].received)
                  /\ conns'[c].received[Len(conns'[c].received)] = EventOf(w)
                  /\ c \in Registered(warningSubscribers')
       ]_vars
  /\ [][\A c \in DOMAIN conns :
          (HandlerStep(c) /\ conns[c].writes > 0)
          => /\ warningSubscribers' = Without(warningSubscribers, c)
             /\ \A d \in DOMAIN conns : d # c => conns'[d] = conns[d]
       ]_vars

C11_Witness ==
  \E c, d \in DOMAIN conns :
    /\ c # d
    /\ conns[c].state \in {"errored", "closed"}
    /\ conns[c].writes = 1
    /\ Len(conns[c].received) = 1
    /\ c \notin Registered(warningSubscribers)
    /\ conns[d].state = "open"
    /\ conns[d].audioId = conns[c].audioId
    /\ Len(conns[d].received) = 2
    /\ d \in Registered(warningSubscribers)

\* C12: a call of notifyWarning(a, b, ...) makes one res.write of the event on
\* a handle for each of the two ids the handle is registered under, and none
\* on a handle registered under neither; an open connection receives exactly
\* those writes.
C12_BroadcastToBothIds ==
  [][\A w \in Workers :
       NotifyStep(w)
       => \A c \in DOMAIN conns :
            LET due == WritesDue(warningSubscribers, c, EventOf(w).file1.id,
                                 EventOf(w).file2.id)
            IN /\ conns'[c].writes = conns[c].writes + due
               /\ due = IF /\ c \in Registered(warningSubscribers)
                           /\ conns[c].audioId \in {EventOf(w).file1.id, EventOf(w).file2.id}
                        THEN 1 ELSE 0
               /\ conns[c].state = "open"
                    => conns'[c].received =
                         conns[c].received \o [i \in 1..due |-> EventOf(w)]
               /\ conns[c].state # "open" => conns'[c].received = conns[c].received
    ]_vars

C12_Witness ==
  \E w \in Workers, a, b, e \in DOMAIN conns :
    /\ workers[w].pc = "mark"
    /\ conns[a].state = "open" /\ conns[a].audioId = workers[w].audioId
    /\ conns[b].state = "open" /\ conns[b].audioId = workers[w].rows[workers[w].match].id
    /\ conns[e].state = "open" /\ conns[e].audioId \notin {conns[a].audioId, conns[b].audioId}
    /\ conns[a].writes = 1 /\ conns[a].received[2] = EventOf(w)
    /\ conns[b].writes = 1 /\ conns[b].received[2] = EventOf(w)
    /\ conns[e].writes = 0 /\ Len(conns[e].received) = 1

\* C13: when a res.write of notifyWarning throws, every open subscriber of
\* both ids still receives the event, the registry is as it was (the failing
\* handle included), and the calling run goes on to its status update with
\* the warning row in place.
C13_WriteFailureContained ==
  [][\A w \in Workers :
       (NotifyStep(w) /\ \E d \in DOMAIN conns : conns'[d].thrown > conns[d].thrown)
       => /\ \A c \in DOMAIN conns :
               (/\ conns[c].state = "open"
                /\ WritesDue(warningSubscribers, c, EventOf(w).file1.id,
                             EventOf(w).file2.id) > 0)
               => conns'[c].received = Append(conns[c].received, EventOf(w))
          /\ warningSubscribers' = warningSubscribers
          /\ similarity_warnings' = similarity_warnings
          /\ \E r \in similarity_warnings :
               r.audio_id_a = EventOf(w).file1.id /\ r.audio_id_b = EventOf(w).file2.id
          /\ workers'[w] = [workers[w] EXCEPT !.pc = "mark"]
    ]_vars

C13_Witness ==
  \E c, d \in DOMAIN conns :
    /\ c < d
    /\ conns[c].thrown = 1
    /\ c \in Registered(warningSubscribers)
    /\ conns[d].state = "open"
    /\ conns[d].audioId = conns[c].audioId
    /\ Len(conns[d].received) = 2
    /\ audio_files[2].similarity_status = "similar_found"
    /\ similarity_warnings # {}

\* C14: once the close or the error handler of a connection has run, its
\* handle is on no list of the registry, in every later state; the handler
\* leaves every other handle where it was; and the close handler that runs
\* after the error handler changes nothing in the registry.
C14_RemovedForGood ==
  /\ [](\A c \in DOMAIN conns :
          conns[c].state \in {"errored", "closed"} => c \notin Registered(warningSubscribers))
  /\ [][\A c \in DOMAIN conns :
          HandlerStep(c)
          => /\ \A k \in DOMAIN warningSubscribers, d \in DOMAIN conns :
                  d # c => Occurrences(warningSubscribers'[k], d)
                             = Occurrences(warningSubscribers[k], d)
             /\ DOMAIN warningSubscribers' = DOMAIN warningSubscribers
             /\ conns[c].state = "errored" => warningSubscribers' = warningSubscribers
       ]_vars

C14_Witness ==
  \E c, d, e \in DOMAIN conns :
    /\ conns[c].state = "closed"
    /\ conns[d].state = "open" /\ conns[d].audioId = conns[c].audioId
    /\ conns[e].state = "open" /\ conns[e].audioId # conns[c].audioId
    /\ warningSubscribers[conns[c].audioId] = <<d>>
    /\ warningSubscribers[conns[e].audioId] = <<e>>

\* C15 (as claimed): when every connection that subscribed has been closed,
\* the registry has no key left.
C15_NoKeyWithoutListener ==
  (\A c \in DOMAIN conns : conns[c].state \in {"none", "errored", "closed"})
  => DOMAIN warningSubscribers = {}

\* ----------------------------------------------- properties of the comparison
\* C16: the threshold test classifies a pair as a match exactly when
\* 100 * (maxBits - distance) >= 70 * maxBits: 70.00% is a match, 69.99% is
\* not.
C16_MatchIffAtLeast70 ==
  probe.kind = "bits"
  => \A r \in probe.results :
       r.match <=> (100 * (r.maxBits - r.distance) >= 70 * r.maxBits)

C16_Witness ==
  /\ probe.kind = "bits"
  /\ [maxBits |-> 30, distance |-> 9, match |-> TRUE] \in probe.results
  /\ [maxBits |-> 30000, distance |-> 9003, match |-> FALSE] \in probe.results

\* C17: with the two fingerprints exchanged the loop body computes the same
\* distance, the same maxBits, the same percentage and the same outcome.
C17_Symmetric ==
  (/\ probe.kind = "strings"
   /\ probe.forward # NotEvaluated
   /\ probe.backward # NotEvaluated)
  => probe.forward = probe.backward

C17_Witness ==
  /\ probe.kind = "strings"
  /\ Len(probe.a) = 3 /\ Len(probe.b) = 2
  /\ probe.forward # NotEvaluated
  /\ probe.backward = probe.forward
  /\ probe.forward.distance > 8
  /\ probe.forward.distance # Infinity

\* ------------------------------------------- properties of the ingest response
\* The requests answered 201 with {duplicate: false, audioId}.
AdmittedCalls == {u \in DOMAIN calls : calls[u].status = 201}

\* The jobs carrying artifact id.
JobsOf(id) == {j \in DOMAIN queue : queue[j].audioId = id}

\* C18: the 201 response of an admitted request is produced by the step that
\* adds the job to the queue, before any delivery of the job; from then on
\* nothing of the request changes, whatever the analysis does: its steps, its
\* failures included, leave every request as it is.
C18_ResponseIndependentOfAnalysis ==
  /\ [][\A u \in DOMAIN calls :
          (calls[u].status # 201 /\ calls'[u].status = 201)
          => /\ calls[u].pc = "record"
             /\ Len(queue') = Len(queue) + 1
             /\ queue'[Len(queue')] = [audioId |-> calls'[u].audioId,
                                       filename |-> calls'[u].name, deliveries |-> 0, failed |-> 0]
             /\ calls'[u].audioId = calls[u].audioId
             /\ workers' = workers
       ]_vars
  /\ [][\A u \in DOMAIN calls : calls[u].pc = "done" => calls'[u] = calls[u]]_vars
  /\ [][workers' # workers => calls' = calls]_vars

C18_Witness ==
  \E u \in DOMAIN calls :
    /\ calls[u].status = 201
    /\ \E j \in JobsOf(calls[u].audioId) : queue[j].deliveries >= 1
    /\ \A w \in Workers : workers[w].pc = "idle"
    /\ faults = 1
    /\ audio_files[calls[u].audioId].similarity_status = "pending"

C20_DuplicateBytesReleased ==
  \A u \in DOMAIN calls :
    calls[u].status = 409
    => /\ \A o \in temp_uploads : o.key # TempFileName(u, calls[u].name)
       /\ u \notin uploads_dir

\* ---------------------------------------------- properties of failed requests
\* The step is a step of request u.
CallStep(u) == calls'[u] # calls[u]

\* The rows of upload_attempts with digest d.
AttemptsFor(d) ==
  CopiesIn([content_hash |-> d, was_duplicate |-> TRUE], upload_attempts)
    + CopiesIn([content_hash |-> d, was_duplicate |-> FALSE], upload_attempts)

\* C21: when the move to audio-files fails, the call ends with the error
\* (500), the row it inserted stays in audio_files as it is, and no job is
\* ever added for that row.
C21_MoveFailureKeepsRow ==
  /\ [][\A u \in DOMAIN calls :
          (calls[u].pc = "move" /\ CallStep(u) /\ faults' > faults)
          => /\ calls'[u].pc = "done"
             /\ calls'[u].status = 500
             /\ audio_files' = audio_files
             /\ upload_attempts' = upload_attempts
             /\ queue' = queue
       ]_vars
  /\ [](\A u \in DOMAIN calls :
          (calls[u].status = 500 /\ calls[u].rowCount = 1)
          => /\ calls[u].audioId \in DOMAIN audio_files
             /\ audio_files[calls[u].audioId].content_hash = calls[u].contentHash
             /\ JobsOf(calls[u].audioId) = {})

C21_Witness ==
  \E u \in DOMAIN calls :
    /\ calls[u].status = 500
    /\ calls[u].rowCount = 1
    /\ audio_files[calls[u].audioId].similarity_status = "pending"
    /\ \A o \in audio_bucket :
         o.key # PermanentFileName(calls[u].contentHash, calls[u].name)
    /\ \E o \in temp_uploads : o.key = TempFileName(u, calls[u].name)
    /\ JobsOf(calls[u].audioId) = {}
    /\ CopiesIn([content_hash |-> calls[u].contentHash, was_duplicate |-> FALSE],
                upload_attempts) = 0

\* C22 (as claimed): upload_attempts holds exactly one row for every call
\* that computed a digest and has ended, with that digest.
C22_OneAttemptPerSubmission ==
  \A content \in Contents :
    AttemptsFor(computeFileHash(content))
      = Cardinality({u \in DOMAIN calls :
                       /\ calls[u].pc = "done"
                       /\ calls[u].contentHash = computeFileHash(content)})

\* C23: a request whose type is not on the allow-list is answered 400 by its
\* first step, which computes no digest and changes no table, no bucket and
\* not the queue; nothing of the request is ever stored.
C23_UnsupportedRejectedFirst ==
  /\ [](\A u \in DOMAIN calls :
          (calls[u].pc # "idle" /\ calls[u].mime \notin allowed)
          => /\ calls[u].pc = "done"
             /\ calls[u].status = 400
             /\ calls[u].contentHash = <<>>
             /\ calls[u].rowCount = NULL
             /\ \A o \in temp_uploads \cup audio_bucket : o.key[2] # calls[u].name
             /\ \A i \in DOMAIN audio_files :
                  audio_files[i].original_filename # calls[u].name
             /\ \A j \in DOMAIN queue : queue[j].filename # calls[u].name)
  /\ [][\A u \in DOMAIN calls :
          (CallStep(u) /\ calls'[u].mime \notin allowed)
          => UNCHANGED <<ledgerVars, temp_uploads, audio_bucket, queue>>
       ]_vars

C23_Witness ==
  \E u, v \in DOMAIN calls :
    /\ calls[u].status = 400
    /\ calls[u].mime = "video/mp4"
    /\ calls[v].status = 201
    /\ Len(audio_files) = 1
    /\ BagCardinality(upload_attempts) = 1
    /\ Len(queue) = 1

\* The step is a throw of the run of w: the job of the run is failed.
RunFails(w) ==
  /\ workers[w].pc # "idle"
  /\ workers'[w] # workers[w]
  /\ queue'[workers[w].job].failed > queue[workers[w].job].failed

C25_RetriedUpToThree ==
  \A j \in DOMAIN queue :
    (queue[j].failed >= 1 /\ queue[j].failed < 3) => RetryDue(queue[j])

\* -------------------------------------------------- properties of the analysis
\* The fingerprints stored for artifacts a and b reach the threshold, in
\* exact arithmetic.
ReachesThreshold(a, b) ==
  LET fa == audio_files[a].perceptual_hash
      fb == audio_files[b].perceptual_hash
      distance == hammingDistance(fa, fb)
      maxBits == Max(Len(fa), Len(fb)) * 6
  IN fa # NULLSTR /\ fb # NULLSTR /\ distance # Infinity
     /\ 100 * (maxBits - distance) >= 70 * maxBits

Fingerprinted(a) == audio_files[a].perceptual_hash # NULLSTR

\* The runs of the analysis of artifact a in progress.
ActiveRuns(a) == {w \in Workers : workers[w].pc # "idle" /\ workers[w].audioId = a}

\* C26: a similarity_warnings row exists only for a pair whose fingerprints
\* reach 70, and an artifact is 'similar_found' only with a row of its own;
\* two fingerprinted artifacts below the threshold, with no other artifact
\* fingerprinted, are both 'processed' and there is no warning.
C26_NoWarningBelowThreshold ==
  /\ \A r \in similarity_warnings :
       /\ ReachesThreshold(r.audio_id_a, r.audio_id_b)
       /\ r.similarity_percent >= 7000
  /\ \A a \in DOMAIN audio_files :
       audio_files[a].similarity_status = "similar_found"
       => \E r \in similarity_warnings : r.audio_id_a = a
  /\ \A a, b \in DOMAIN audio_files :
       (/\ a # b
        /\ Fingerprinted(a) /\ Fingerprinted(b)
        /\ ~ReachesThreshold(a, b)
        /\ \A c \in DOMAIN audio_files : c \notin {a, b} => ~Fingerprinted(c))
       => /\ audio_files[a].similarity_status = "processed"
          /\ audio_files[b].similarity_status = "processed"
          /\ similarity_warnings = {}

C26_Witness ==
  /\ Fingerprinted(1) /\ Fingerprinted(3) /\ ~Fingerprinted(2)
  /\ ~ReachesThreshold(1, 3)
  /\ lastScan[1].scans >= 1 /\ lastScan[3].scans >= 1
  /\ lastScan[3].seen = {1}
  /\ \A w \in Workers : workers[w].pc = "idle"
  /\ audio_files[1].similarity_status = "processed"
  /\ audio_files[3].similarity_status = "processed"
  /\ similarity_warnings = {}

\* C27: no row of similarity_warnings names a 'pending' artifact, on either
\* side; the warnings endpoint answers the empty list for a 'pending'
\* artifact.
C27_NoWarningForPending ==
  /\ \A r \in similarity_warnings :
       /\ audio_files[r.audio_id_a].similarity_status # "pending"
       /\ audio_files[r.audio_id_b].similarity_status # "pending"
  /\ \A a \in DOMAIN audio_files :
       audio_files[a].similarity_status = "pending"
       => getWarnings(similarity_warnings, a) = <<>>

C27_Witness ==
  /\ queue[1].failed = 1
  /\ audio_files[1].similarity_status = "pending"
  /\ \A w \in Workers : workers[w].pc = "idle"
  /\ similarity_warnings # {}
  /\ getWarnings(similarity_warnings, 1) = <<>>
  /\ Len(getWarnings(similarity_warnings, 2)) >= 1

\* C28: two artifacts whose fingerprints reach the threshold, no other
\* artifact being fingerprinted: once a run of each has gone through its scan
\* and no run of either is in progress, similarity_warnings holds a row for
\* the pair, however the runs were interleaved.
C28_ConcurrentPairNotMissed ==
  \A a, b \in DOMAIN audio_files :
    (/\ a # b
     /\ lastScan[a].scans >= 1 /\ lastScan[b].scans >= 1
     /\ ActiveRuns(a) = {} /\ ActiveRuns(b) = {}
     /\ IsMatch(FpString(calls[a].content), FpString(calls[b].content))
     /\ \A c \in DOMAIN audio_files : c \notin {a, b} => ~Fingerprinted(c))
    => \E r \in similarity_warnings : {r.audio_id_a, r.audio_id_b} = {a, b}

C28_Witness ==
  /\ lastScan[1].scans = 1 /\ lastScan[1].seen = {} /\ lastScan[1].found = 0
  /\ lastScan[2].scans = 1 /\ lastScan[2].found = 1
  /\ ActiveRuns(1) = {} /\ ActiveRuns(2) = {}
  /\ ~Fingerprinted(3)
  /\ \E r \in similarity_warnings : r.audio_id_a = 2 /\ r.audio_id_b = 1

\* C29 (as claimed): once the analysis has written perceptual_hash,
\* duration_seconds and similarity_status of an artifact, no later step
\* writes another value to any of them.
C29_AnalysisColumnsWrittenOnce ==
  [][\A a \in DOMAIN audio_files :
       audio_files[a].similarity_status # "pending"
       => /\ audio_files'[a].perceptual_hash = audio_files[a].perceptual_hash
          /\ audio_files'[a].duration_seconds = audio_files[a].duration_seconds
          /\ audio_files'[a].similarity_status = audio_files[a].similarity_status
    ]_vars

\* C30 (as claimed): when either fingerprint decodes to no bytes, the
\* distance is Infinity and the pair is not a match.
C30_EmptyDecodeNeverMatches ==
  (/\ probe.kind = "strings"
   /\ probe.forward # NotEvaluated
   /\ Base64Decode(probe.a) = <<>> \/ Base64Decode(probe.b) = <<>>)
  => /\ probe.forward.distance = Infinity
     /\ ~probe.forward.match

\* ------------------------------------------- persistence before notification
\* The warnings endpoint for artifact x lists a warning for the pair (a, b).
Listed(x, a, b) ==
  \E k \in DOMAIN getWarnings(similarity_warnings, x) :
    /\ getWarnings(similarity_warnings, x)[k].file1.id = a
    /\ getWarnings(similarity_warnings, x)[k].file2.id = b

\* C31: in every state in which a connection has received a
\* similarity_detected event for a pair (a, b), the warnings endpoint lists a
\* warning for that pair, with the same file names and percentage, both for a
\* and for b; and the row is in similarity_warnings before the step of
\* notifyWarning that writes the event.
C31_EventOnlyAfterRow ==
  /\ [](\A c \in DOMAIN conns : \A i \in DOMAIN conns[c].received :
          conns[c].received[i].type = "similarity_detected"
          => LET m == conns[c].received[i]
             IN /\ Listed(m.file1.id, m.file1.id, m.file2.id)
                /\ Listed(m.file2.id, m.file1.id, m.file2.id)
                /\ \E r \in similarity_warnings :
                     /\ r.audio_id_a = m.file1.id /\ r.audio_id_b = m.file2.id
                     /\ r.filename_a = m.file1.filename
                     /\ r.filename_b = m.file2.filename
                     /\ r.similarity_percent = m.similarityPercent)
  /\ [][\A w \in Workers :
          NotifyStep(w)
          => ConflictingWarnings(similarity_warnings, EventOf(w).file1.id,
                                 EventOf(w).file2.id) # {}
       ]_vars

C31_Witness ==
  \E c \in DOMAIN conns : \E i \in DOMAIN conns[c].received :
    /\ conns[c].received[i].type = "similarity_detected"
    /\ conns[c].received[i].file1.id = 2
    /\ conns[c].received[i].file2.id = 1
    /\ Listed(1, 2, 1)
    /\ Listed(2, 2, 1)
    /\ audio_files[2].similarity_status = "processed"

\* C32: an artifact whose similarity_status is 'similar_found' is named by a
\* row of similarity_warnings; and the step that writes 'similar_found' is
\* taken by a run that found a match, with the row for (artifact, match)
\* already in similarity_warnings.
C32_MatchedHasWarning ==
  /\ [](\A a \in DOMAIN audio_files :
          audio_files[a].similarity_status = "similar_found"
          => \E r \in similarity_warnings : a \in {r.audio_id_a, r.audio_id_b})
  /\ [][\A a \in DOMAIN audio_files :
          (/\ audio_files[a].similarity_status # "similar_found"
           /\ audio_files'[a].similarity_status = "similar_found")
          => \E w \in Workers :
               /\ workers[w].pc = "mark"
               /\ workers[w].audioId = a
               /\ workers[w].match \in DOMAIN workers[w].rows
               /\ ConflictingWarnings(similarity_warnings, a,
                                      workers[w].rows[workers[w].match].id) # {}
       ]_vars

C32_Witness ==
  /\ audio_files[2].similarity_status = "similar_found"
  /\ audio_files[1].similarity_status = "processed"
  /\ audio_files[3].similarity_status = "pending"
  /\ similarity_warnings # {}
  /\ \A r \in similarity_warnings : r.audio_id_a = 2 /\ r.audio_id_b = 1
  /\ \A w \in Workers : workers[w].pc = "idle"

\* C33: in every state the perceptual_hash of an artifact is NULL exactly
\* when its similarity_status is 'pending'; no step makes a stored
\* fingerprint NULL again or returns a status to 'pending', and the step that
\* takes the status out of 'pending' is the one that stores the fingerprint.
C33_NullHashIffPending ==
  /\ [](\A a \in DOMAIN audio_files :
          (audio_files[a].perceptual_hash = NULLSTR)
            <=> (audio_files[a].similarity_status = "pending"))
  /\ [][\A a \in DOMAIN audio_files :
          /\ audio_files[a].perceptual_hash # NULLSTR
             => audio_files'[a].perceptual_hash # NULLSTR
          /\ audio_files[a].similarity_status # "pending"
             => audio_files'[a].similarity_status # "pending"
          /\ (/\ audio_files[a].similarity_status = "pending"
              /\ audio_files'[a].similarity_status # "pending")
             => /\ audio_files[a].perceptual_hash = NULLSTR
                /\ audio_files'[a].perceptual_hash # NULLSTR
                /\ audio_files'[a].similarity_status = "processed"
       ]_vars

C33_Witness ==
  /\ Len(audio_files) = 2
  /\ audio_files[1].similarity_status = "pending"
  /\ audio_files[1].perceptual_hash = NULLSTR
  /\ audio_files[2].similarity_status = "processed"
  /\ audio_files[2].perceptual_hash = FpString(calls[2].content)
  /\ \E w \in Workers : workers[w].pc = "store" /\ workers[w].audioId = 1

\* ------------------------------------------------------ frame of the analysis
\* The artifact the run of worker w is about, in a step of that run.
SubjectOf(w) == IF workers[w].pc = "idle" THEN workers'[w].audioId ELSE workers[w].audioId

\* C34: a step of the analysis of artifact S leaves audio_files with the same
\* rows; of the row of S it changes at most perceptual_hash, duration_seconds
\* and similarity_status; every other row, the row of the candidate S
\* matched included, is left as it is.
C34_AnalysisFrame ==
  [][\A w \in Workers :
       workers'[w] # workers[w]
       => /\ DOMAIN audio_files' = DOMAIN audio_files
          /\ \A i \in DOMAIN audio_files :
               IF i = SubjectOf(w)
               THEN /\ audio_files'[i].id = audio_files[i].id
                    /\ audio_files'[i].content_hash = audio_files[i].content_hash
                    /\ audio_files'[i].storage_path = audio_files[i].storage_path
                    /\ audio_files'[i].original_filename = audio_files[i].original_filename
                    /\ audio_files'[i].file_size = audio_files[i].file_size
                    /\ audio_files'[i].mime_type = audio_files[i].mime_type
                    /\ audio_files'[i].created_at = audio_files[i].created_at
               ELSE audio_files'[i] = audio_files[i]
    ]_vars

C34_Witness ==
  /\ audio_files[2].similarity_status = "similar_found"
  /\ audio_files[2].perceptual_hash = FpString(2)
  /\ audio_files[2].duration_seconds = FpDuration(2)
  /\ audio_files[1].similarity_status = "processed"
  /\ audio_files[3].similarity_status = "pending"
  /\ lastScan[2].found = 1
  /\ \A i \in DOMAIN audio_files :
       /\ audio_files[i].content_hash = computeFileHash(i)
       /\ audio_files[i].original_filename = <<"track", i>>

\* ------------------------------------------------- admissions that failed
\* The calls that inserted the ledger row and then threw (the move or the
\* enqueue failed).
FailedAfterInsert == {u \in DOMAIN calls : calls[u].rowCount = 1 /\ calls[u].status = 500}

\* C35: after a call inserted the ledger row for a digest and then failed at
\* the move or at the enqueue, every other call that runs the INSERT with
\* that digest gets no row and answers {duplicate: true}; no job is ever in
\* the queue for the artifact, no run is about it, and its row stays
\* 'pending' with a NULL perceptual_hash.
C35_FailedAdmissionSticks ==
  \A u \in FailedAfterInsert :
    /\ \A v \in DOMAIN calls :
         (v # u /\ calls[v].rowCount # NULL /\ calls[v].contentHash = calls[u].contentHash)
         => /\ calls[v].rowCount = 0
            /\ calls[v].pc \in {"duplicate", "done"}
            /\ calls[v].pc = "done" => calls[v].status = 409
    /\ JobsOf(calls[u].audioId) = {}
    /\ ActiveRuns(calls[u].audioId) = {}
    /\ audio_files[calls[u].audioId].similarity_status = "pending"
    /\ audio_files[calls[u].audioId].perceptual_hash = NULLSTR

C35_Witness ==
  \E u \in FailedAfterInsert : \E v \in DOMAIN calls :
    /\ v # u
    /\ calls[v].contentHash = calls[u].contentHash
    /\ calls[v].status = 409
    /\ [content_hash |-> calls[u].contentHash, was_duplicate |-> FALSE]
         \in DOMAIN upload_attempts
    /\ [content_hash |-> calls[u].contentHash, was_duplicate |-> TRUE]
         \in DOMAIN upload_attempts
    /\ queue = <<>>
    /\ audio_files[calls[u].audioId].similarity_status = "pending"

\* ------------------------------------------------- what a job can rely on
\* Artifact id is fully admitted: its row is in audio_files, the object at
\* its storage_path is in audio-files and holds the bytes of its digest, and
\* its upload attempt is recorded.
FullyAdmitted(id) ==
  /\ id \in DOMAIN audio_files
  /\ \E o \in audio_bucket :
       /\ o.key = audio_files[id].storage_path
       /\ computeFileHash(o.bytes) = audio_files[id].content_hash
  /\ [content_hash |-> audio_files[id].content_hash, was_duplicate |-> FALSE]
       \in DOMAIN upload_attempts

\* C36: every job of the queue, and every run of process(), is about an
\* artifact that is fully admitted; the step that adds a job finds the row,
\* the object and the attempt already there; and a run ends at its first
\* steps (row, download, fpcalc) only by a failure of the blob store or of
\* fpcalc, never because the row or the object is missing.
C36_EnqueuedAfterAdmission ==
  /\ [](\A j \in DOMAIN queue : FullyAdmitted(queue[j].audioId))
  /\ [](\A w \in Workers : workers[w].pc # "idle" => FullyAdmitted(workers[w].audioId))
  /\ [][\A j \in DOMAIN queue' :
          j \notin DOMAIN queue
          => /\ queue'[j].audioId \in DOMAIN audio_files
             /\ \E o \in audio_bucket :
                  o.key = audio_files[queue'[j].audioId].storage_path
       ]_vars
  /\ [][\A w \in Workers :
          (workers[w].pc = "fetch" /\ workers'[w] = IdleWorker)
          => faults' = faults + 1
       ]_vars

C36_Witness ==
  \E w \in Workers :
    /\ workers[w].pc = "store"
    /\ FullyAdmitted(workers[w].audioId)
    /\ workers[w].fingerprint = FpString(calls[workers[w].audioId].content)
    /\ \E u \in DOMAIN calls : calls[u].pc = "move" /\ calls[u].rowCount = 1

\* ------------------------------------------------- the similarity formula
\* The base64 string s read as a stream of bits, 6 per character, most
\* significant first: bit p of the stream (p from 1), and the number of
\* whole bytes the stream holds.
StreamBit(s, p) ==
  LET ch == s[((p - 1) \div 6) + 1]
      shift == 5 - ((p - 1) % 6)
  IN (ch \div (2 ^ shift)) % 2

StreamBytes(s) == (6 * Len(s)) \div 8

\* The distance of the formula: 8 for each byte one decoded sequence is longer
\* than the other, plus the bits in which the sequences differ over the bytes
\* both have.
ReferenceDistance(a, b) ==
  Abs(StreamBytes(a) - StreamBytes(b)) * 8
    + Cardinality({p \in 1..(8 * Min(StreamBytes(a), StreamBytes(b))) :
                     StreamBit(a, p) # StreamBit(b, p)})

C38_PercentWithinRange ==
  /\ (/\ probe.kind = "strings"
      /\ probe.forward # NotEvaluated
      /\ probe.forward.distance # Infinity)
     => /\ probe.forward.distance >= 0
        /\ probe.forward.distance <= probe.forward.maxBits
        /\ probe.forward.percent[1] >= 0
        /\ probe.forward.percent[1] <= 10000
  /\ (probe.kind = "strings" /\ probe.forward.match)
     => probe.forward.distance # Infinity
  /\ \A r \in similarity_warnings :
       r.similarity_percent >= 0 /\ r.similarity_percent <= 10000

C38_Witness ==
  /\ probe.kind = "strings"
  /\ probe.a = <<0, 3, 0>>
  /\ probe.b = <<0, 0, 0>>
  /\ probe.forward # NotEvaluated
  /\ probe.forward.distance = 2
  /\ probe.forward.maxBits = 18
  /\ probe.forward.percent = <<8889>>
  /\ probe.forward.match

\* C39: no row of similarity_warnings has audio_id_a = audio_id_b; no scan,
\* the scan of a run delivered again after the artifact's fingerprint was
\* stored included, reads the artifact's own row as a candidate or returns it
\* as the match.
C39_WarningPairDistinct ==
  /\ \A r \in similarity_warnings : r.audio_id_a # r.audio_id_b
  /\ \A j \in DOMAIN lastScan :
       /\ queue[j].audioId \notin lastScan[j].seen
       /\ lastScan[j].found # queue[j].audioId
  /\ \A w \in Workers : \A i \in DOMAIN workers[w].rows :
       workers[w].rows[i].id # workers[w].audioId

C39_Witness ==
  /\ lastScan[2].scans = 2
  /\ lastScan[2].seen = {1}
  /\ lastScan[2].found = 1
  /\ queue[2].deliveries = 2
  /\ \A w \in Workers : workers[w].pc = "idle"
  /\ audio_files[2].perceptual_hash # NULLSTR
  /\ similarity_warnings # {}
  /\ \A r \in similarity_warnings : r.audio_id_a = 2 /\ r.audio_id_b = 1

\* C40: the first message a connection receives is {type: "connected"} and
\* every later one is a similarity_detected event; a handle is in the
\* registry only with its connected message written, and the step that
\* registers it is the one that writes that message as the first.
C40_ConnectedFirst ==
  /\ [](\A c \in DOMAIN conns :
          (conns[c].state # "none" \/ c \in Registered(warningSubscribers))
          => /\ conns[c].received # <<>>
             /\ conns[c].received[1] = [type |-> "connected"]
             /\ \A i \in DOMAIN conns[c].received :
                  i > 1 => conns[c].received[i].type = "similarity_detected")
  /\ [][\A c \in DOMAIN conns :
          (c \notin Registered(warningSubscribers)
           /\ c \in Registered(warningSubscribers'))
          => /\ conns[c].received = <<>>
             /\ conns'[c].received = <<[type |-> "connected"]>>
       ]_vars

C40_Witness ==
  \E c \in DOMAIN conns :
    /\ Len(conns[c].received) = 2
    /\ conns[c].received[1].type = "connected"
    /\ conns[c].received[2].type = "similarity_detected"
    /\ conns[c].audioId = 1
    /\ conns[c].state = "open"

====
